---- MODULE Spec2Model ----
(***************************************************************************)
(* Model of the RAG backends of the repository.                            *)
(*                                                                         *)
(* Spec: the sequential tool-orchestration loop,                           *)
(* AIGenerator.generate_response and AIGenerator._execute_tools of         *)
(* starting-ragchatbot-codebase/backend/ai_generator.py.  One behaviour is *)
(* one call of generate_response.  The language model                      *)
(* (client.messages.create) and the tool manager (execute_tool) are the    *)
(* environment: each call of either returns one of the values it can       *)
(* return, or raises.                                                      *)
(*                                                                         *)
(* SpecAgent, SpecQueries: AgenticRAGAgent.query and _extract_sources of   *)
(* langchain-agentic-rag/backend/agent.py with the knowledge_search tool   *)
(* of agent_tools.py; one query, and two queries running concurrently.     *)
(***************************************************************************)
EXTENDS Integers, Sequences, FiniteSets, TLC

----------------------------------------------------------------------------
(* Bounds of the model *)

\* largest max_tool_rounds a call is made with
MaxRounds == 2

\* largest number of tool_use blocks in one model response
MaxToolCalls == 2

----------------------------------------------------------------------------
(* Values *)

\* AIGenerator.SYSTEM_PROMPT (abbreviated)
SYSTEM_PROMPT == "SYSTEM_PROMPT"

\* AIGenerator.base_params
base_params == [model |-> "model", temperature |-> 0, max_tokens |-> 800]

\* the user's question
Query == "What are Python variables?"

\* Python's None for the optional string argument conversation_history
None == "<None>"

\* values of the conversation_history argument: absent, empty, non-empty
Histories == {None, "", "User: Hello"}

\* the tool list handed to generate_response when tools are supplied
ToolSpecs == <<[name |-> "search_course_content"], [name |-> "get_course_outline"]>>

\* values of the tools argument: empty (falsy) or the tool specs
ToolLists == {<<>>, ToolSpecs}

\* values of the tool_manager argument: None or a manager object
ToolManagers == {"None", "manager"}

\* texts a model response can carry in a text block
AnswerTexts == {"answer-1", "answer-2"}

\* text a model puts in front of its tool requests
PreambleText == "Let me search."

\* what a successful tool execution returns, and messages of the exceptions a
\* tool execution raises
Observations == {"Course content"}
ErrorMessages == {"Database unavailable"}

\* no response received yet
NoResponse == [stop_reason |-> "", content |-> <<>>]

\* no request built yet
NoParams == [messages |-> <<>>]

\* generate_response has neither returned nor raised
NoResult == [kind |-> "none", value |-> ""]

----------------------------------------------------------------------------
(* Content blocks of a model response *)

TextBlock(t) == [type |-> "text", text |-> t]

ToolUseBlock(id, name) == [type |-> "tool_use", id |-> id, name |-> name]

\* the tool requested at position i of a response
RequestedName(i) == ToolSpecs[((i - 1) % Len(ToolSpecs)) + 1].name

\* the k tool_use blocks of the response to model invocation number call
ToolUseBlocks(call, k) == [i \in 1..k |-> ToolUseBlock(<<call, i>>, RequestedName(i))]

\* responses without a tool request
FinalResponses ==
    {[stop_reason |-> "end_turn", content |-> <<TextBlock(t)>>] : t \in AnswerTexts}

\* responses requesting one or more tools, with or without a leading text block
ToolUseResponses(call) ==
    {[stop_reason |-> "tool_use", content |-> pre \o ToolUseBlocks(call, k)] :
        pre \in {<<>>, <<TextBlock(PreambleText)>>}, k \in 1..MaxToolCalls}

\* what the model can answer to a request: it can request a tool only when the
\* request offers tools
ModelResponses(params, call) ==
    IF "tools" \in DOMAIN params
    THEN FinalResponses \cup ToolUseResponses(call)
    ELSE FinalResponses

----------------------------------------------------------------------------
VARIABLES
    conversation_history,   \* argument of generate_response
    tools,                  \* argument of generate_response
    tool_manager,           \* argument of generate_response
    max_tool_rounds,        \* argument of generate_response
    pc,                     \* position of the call in the code
    system_content,         \* local of generate_response
    messages,               \* local of generate_response: the transcript
    tool_rounds_used,       \* local of generate_response
    api_params,             \* the request of the model invocation last made
    response,               \* the response under examination
    block_index,            \* _execute_tools: position in response.content
    tool_results,           \* _execute_tools: results built so far
    result,                 \* what generate_response returned or raised
    api_calls,              \* every request made to the model, in order
    tool_calls,             \* every execute_tool call made, in order
    collection,             \* agent: the chunks the vector index can return
    agent_pc,               \* agent: position of each call of query
    intermediate_steps,     \* agent: the (action, observation) steps of each call
    query_sources,          \* agent: response["sources"] of each call
    tool_runs,              \* agent: the tool executions made for each call, in order
    doc_content,            \* chunker: document.content
    chunk_size,             \* chunker: settings.chunk_size
    chunk_overlap,          \* chunker: settings.chunk_overlap
    chunk_pc,               \* chunker: position of the call of _create_chunks
    start,                  \* chunker: local of _create_chunks
    chunk_index,            \* chunker: local of _create_chunks
    chunks,                 \* chunker: local of _create_chunks, returned at the end
    windows,                \* chunker: the windows processed by this call, in order
    uuids,                  \* chunker: number of identifiers drawn so far
    chunking_run,           \* chunker: 1 for the first call on the document, 2 for the second
    first_chunks,           \* chunker: what the first call returned
    documents,              \* knowledge base: KnowledgeBase.documents
    chroma,                 \* knowledge base: the entries of the Chroma collection
    issued,                 \* knowledge base: the document identifiers drawn so far
    ops,                    \* knowledge base: number of calls made so far
    last_op,                \* knowledge base: the last call and what it returned
    sessions,               \* sessions: SessionManager.sessions
    max_session_age_hours,  \* sessions: argument of SessionManager.__init__
    max_conversation_history, \* sessions: settings.max_conversation_history
    now,                    \* sessions: datetime.utcnow(), in hours
    serial,                 \* sessions: number of messages written so far
    req_pc,                 \* sessions: position of each query in its interface
    requests,               \* sessions: what each query was called with and read
    replies,                \* sessions: what each query gave its caller
    last_read,              \* sessions: the call of get_messages made by the last step, if any
    last_call,              \* sessions: the call of the session manager made by the last step, if any
    course_catalog,         \* resolver: the titles of the known collections
    course_name,            \* resolver: the name a caller asks for
    resolve_pc,             \* resolver: position of the call
    resolved,               \* resolver: what the resolution of course_name gave
    search_outcome          \* resolver: what the search with course_name returned

genVars == <<conversation_history, tools, tool_manager, max_tool_rounds, pc,
             system_content, messages, tool_rounds_used, api_params, response,
             block_index, tool_results, result, api_calls, tool_calls>>

agentVars == <<collection, agent_pc, intermediate_steps, query_sources, tool_runs>>

chunkVars == <<doc_content, chunk_size, chunk_overlap, chunk_pc, start, chunk_index,
               chunks, windows, uuids, chunking_run, first_chunks>>

kbVars == <<documents, chroma, issued, ops, last_op>>

sessionVars == <<sessions, max_session_age_hours, max_conversation_history, now,
                 serial, req_pc, requests, replies, last_read,
                 last_call>>

resolveVars == <<course_catalog, course_name, resolve_pc, resolved, search_outcome>>

vars == <<genVars, agentVars, chunkVars, kbVars, sessionVars, resolveVars>>

\* what a step of generate_response leaves alone
loopOthers == <<agentVars, chunkVars, kbVars, sessionVars, resolveVars>>

\* what a step of the agent leaves alone
agentOthers == <<genVars, chunkVars, kbVars, sessionVars, resolveVars>>

\* what a step of the chunker leaves alone
chunkOthers == <<genVars, agentVars, kbVars, sessionVars, resolveVars>>

\* what a call of the knowledge base leaves alone; the chunk settings are read
kbOthers == <<genVars, agentVars, doc_content, chunk_pc, start, chunk_index, chunks,
              windows, uuids, chunking_run, first_chunks, sessionVars, resolveVars>>

\* what a call of the session manager or of a query interface leaves alone
sessionOthers == <<genVars, agentVars, chunkVars, kbVars, resolveVars>>

\* what a call of the name resolution leaves alone
resolveOthers == <<genVars, agentVars, chunkVars, kbVars, sessionVars>>

args == <<conversation_history, tools, tool_manager, max_tool_rounds>>

\* no call of AgenticRAGAgent.query exists
AgentIdle ==
    /\ collection = <<>>
    /\ agent_pc = <<>>
    /\ intermediate_steps = <<>>
    /\ query_sources = <<>>
    /\ tool_runs = <<>>

\* the knowledge base is not in use
KbIdle ==
    /\ documents = <<>>
    /\ chroma = {}
    /\ issued = {}
    /\ ops = 0
    /\ last_op = [op |-> "none", id |-> "", returned |-> ""]

\* no call of _create_chunks exists
ChunkIdle ==
    /\ doc_content = <<>>
    /\ chunk_size = 1
    /\ chunk_overlap = 0
    /\ chunk_pc = "idle"
    /\ start = 0
    /\ chunk_index = 0
    /\ chunks = <<>>
    /\ windows = <<>>
    /\ uuids = 0
    /\ chunking_run = 1
    /\ first_chunks = <<>>

\* no name is being resolved
ResolveIdle ==
    /\ course_catalog = {}
    /\ course_name = <<>>
    /\ resolve_pc = "idle"
    /\ resolved = <<>>
    /\ search_outcome = <<>>

\* no session manager exists
SessionIdle ==
    /\ sessions = <<>>
    /\ max_session_age_hours = 0
    /\ max_conversation_history = 0
    /\ now = 0
    /\ serial = 0
    /\ req_pc = <<>>
    /\ requests = <<>>
    /\ replies = <<>>
    /\ last_read = <<>>
    /\ last_call = <<>>

\* no call of generate_response exists
LoopIdle ==
    /\ conversation_history = None
    /\ tools = <<>>
    /\ tool_manager = "None"
    /\ max_tool_rounds = 0
    /\ pc = "idle"
    /\ system_content = ""
    /\ messages = <<>>
    /\ tool_rounds_used = 0
    /\ api_params = NoParams
    /\ response = NoResponse
    /\ block_index = 0
    /\ tool_results = <<>>
    /\ result = NoResult
    /\ api_calls = <<>>
    /\ tool_calls = <<>>

----------------------------------------------------------------------------
Init ==
    /\ conversation_history \in Histories
    /\ tools \in ToolLists
    /\ tool_manager \in ToolManagers
    /\ max_tool_rounds \in 0..MaxRounds
    /\ pc = "entry"
    /\ system_content = ""
    /\ messages = <<>>
    /\ tool_rounds_used = 0
    /\ api_params = NoParams
    /\ response = NoResponse
    /\ block_index = 0
    /\ tool_results = <<>>
    /\ result = NoResult
    /\ api_calls = <<>>
    /\ tool_calls = <<>>
    /\ AgentIdle
    /\ ChunkIdle
    /\ KbIdle
    /\ SessionIdle
    /\ ResolveIdle

\* lines 70-74
SystemContent(history) ==
    IF history # None /\ history # ""
    THEN SYSTEM_PROMPT \o "\n\nPrevious conversation:\n" \o history
    ELSE SYSTEM_PROMPT

\* lines 69-78: system content, initial transcript, round counter
Begin ==
    /\ pc = "entry"
    /\ system_content' = SystemContent(conversation_history)
    /\ messages' = <<[role |-> "user", content |-> Query]>>
    /\ tool_rounds_used' = 0
    /\ pc' = "loop"
    /\ UNCHANGED <<loopOthers, args, api_params, response, block_index, tool_results,
                   result, api_calls, tool_calls>>

\* line 81: the loop condition
LoopCondition(used, max) == used < max

\* line 90: tools are included in the request
IncludeTools(tool_list, used, max) == tool_list # <<>> /\ used < max

\* lines 83-92: the request of a loop iteration
LoopParams(msgs, system, tool_list, used, max) ==
    LET plain == base_params @@ [messages |-> msgs, system |-> system]
    IN  IF IncludeTools(tool_list, used, max)
        THEN plain @@ [tools |-> tool_list, tool_choice |-> [type |-> "auto"]]
        ELSE plain

\* the final request built without the prior conversation
FinalParams_NoHistory(msgs, system) ==
    base_params @@ [messages |-> msgs, system |-> SYSTEM_PROMPT]

\* the final request built like a loop request, tools included
FinalParams_WithTools(msgs, system) ==
    base_params @@ [messages |-> msgs, system |-> system]
                @@ [tools |-> ToolSpecs, tool_choice |-> [type |-> "auto"]]

\* lines 109-113: the request made after the loop
FinalParams(msgs, system) == base_params @@ [messages |-> msgs, system |-> system]

\* lines 81-95: the loop is entered and the model is invoked
LoopRequest ==
    /\ pc = "loop"
    /\ LoopCondition(tool_rounds_used, max_tool_rounds)
    /\ api_params' = LoopParams(messages, system_content, tools,
                                tool_rounds_used, max_tool_rounds)
    /\ api_calls' = Append(api_calls, api_params')
    /\ pc' = "await"
    /\ UNCHANGED <<loopOthers, args, system_content, messages, tool_rounds_used, response,
                   block_index, tool_results, result, tool_calls>>

\* lines 81, 109-114: the loop is left and the model is invoked a last time
FinalRequest ==
    /\ pc = "loop"
    /\ ~LoopCondition(tool_rounds_used, max_tool_rounds)
    /\ api_params' = FinalParams(messages, system_content)
    /\ api_calls' = Append(api_calls, api_params')
    /\ pc' = "await_final"
    /\ UNCHANGED <<loopOthers, args, system_content, messages, tool_rounds_used, response,
                   block_index, tool_results, result, tool_calls>>

\* lines 95, 114: client.messages.create returns
ModelReturns ==
    /\ pc \in {"await", "await_final"}
    /\ response' \in ModelResponses(api_params, Len(api_calls))
    /\ pc' = IF pc = "await" THEN "check" ELSE "final"
    /\ UNCHANGED <<loopOthers, args, system_content, messages, tool_rounds_used, api_params,
                   block_index, tool_results, result, api_calls, tool_calls>>

\* client.messages.create raises and the request is made again
ModelRaises_Retry ==
    /\ pc \in {"await", "await_final"}
    /\ pc' = "loop"
    /\ UNCHANGED <<loopOthers, args, system_content, messages, tool_rounds_used, api_params,
                   response, block_index, tool_results, result, api_calls, tool_calls>>

\* lines 95, 114: client.messages.create raises; nothing catches it
ModelRaises ==
    /\ pc \in {"await", "await_final"}
    /\ result' = [kind |-> "raise", value |-> "APIError"]
    /\ pc' = "done"
    /\ UNCHANGED <<loopOthers, args, system_content, messages, tool_rounds_used, api_params,
                   response, block_index, tool_results, api_calls, tool_calls>>

\* the stop reason tested with the comparison inverted
ReturnsNow_Inverted(resp, manager) == resp.stop_reason = "tool_use" \/ manager = "None"

\* line 98: the response ends the loop
ReturnsNow(resp, manager) == resp.stop_reason # "tool_use" \/ manager = "None"

\* lines 99, 115: response.content[0].text; a tool_use block has no text
ContentText(resp) ==
    IF resp.content[1].type = "text"
    THEN [kind |-> "return", value |-> resp.content[1].text]
    ELSE [kind |-> "raise", value |-> "AttributeError"]

\* lines 98-99
ReturnResponse ==
    /\ pc = "check"
    /\ ReturnsNow(response, tool_manager)
    /\ result' = ContentText(response)
    /\ pc' = "done"
    /\ UNCHANGED <<loopOthers, args, system_content, messages, tool_rounds_used, api_params,
                   response, block_index, tool_results, api_calls, tool_calls>>

\* the round starts without recording the assistant's request
StartRound_NoAssistantEntry ==
    /\ pc = "check"
    /\ ~ReturnsNow(response, tool_manager)
    /\ tool_results' = <<>>
    /\ block_index' = 1
    /\ pc' = "tools"
    /\ UNCHANGED <<loopOthers, args, system_content, messages, tool_rounds_used, api_params,
                   response, result, api_calls, tool_calls>>

\* lines 98, 102-103, 128: the round starts executing the requested tools
StartRound ==
    /\ pc = "check"
    /\ ~ReturnsNow(response, tool_manager)
    /\ messages' = Append(messages, [role |-> "assistant", content |-> response.content])
    /\ tool_results' = <<>>
    /\ block_index' = 1
    /\ pc' = "tools"
    /\ UNCHANGED <<loopOthers, args, system_content, tool_rounds_used, api_params, response,
                   result, api_calls, tool_calls>>

\* lines 136-140, 145-149: a tool result entry
ToolResult(id, content) ==
    [type |-> "tool_result", tool_use_id |-> id, content |-> content]

\* line 148
ErrorContent(msg) == "Tool execution error: " \o msg

\* line 129: the block the for loop is at
CurrentBlock == response.content[block_index]

\* the for loop leaving after its first iteration
MoreBlocks_FirstOnly(index, content) == index <= Len(content) /\ index <= 1

\* line 129: the for loop has blocks left
MoreBlocks(index, content) == index <= Len(content)

\* lines 129-130: a block that is no tool request is passed over
SkipBlock ==
    /\ pc = "tools"
    /\ MoreBlocks(block_index, response.content)
    /\ CurrentBlock.type # "tool_use"
    /\ block_index' = block_index + 1
    /\ UNCHANGED <<loopOthers, args, system_content, messages, tool_rounds_used, api_params,
                   response, tool_results, result, pc, api_calls, tool_calls>>

\* lines 130-141: execute_tool returns an observation
ToolReturns ==
    /\ pc = "tools"
    /\ MoreBlocks(block_index, response.content)
    /\ CurrentBlock.type = "tool_use"
    /\ \E obs \in Observations :
        /\ tool_calls' = Append(tool_calls, [name |-> CurrentBlock.name,
                                             id |-> CurrentBlock.id,
                                             raised |-> FALSE, value |-> obs])
        /\ tool_results' = Append(tool_results, ToolResult(CurrentBlock.id, obs))
    /\ block_index' = block_index + 1
    /\ UNCHANGED <<loopOthers, args, system_content, messages, tool_rounds_used, api_params,
                   response, result, pc, api_calls>>

\* execute_tool raises and nothing catches the exception
ToolRaises_Uncaught ==
    /\ pc = "tools"
    /\ MoreBlocks(block_index, response.content)
    /\ CurrentBlock.type = "tool_use"
    /\ \E msg \in ErrorMessages :
        /\ tool_calls' = Append(tool_calls, [name |-> CurrentBlock.name,
                                             id |-> CurrentBlock.id,
                                             raised |-> TRUE, value |-> msg])
        /\ result' = [kind |-> "raise", value |-> msg]
    /\ pc' = "done"
    /\ UNCHANGED <<loopOthers, args, system_content, messages, tool_rounds_used, api_params,
                   response, block_index, tool_results, api_calls>>

\* execute_tool raises, the error is recorded and the for loop is left
ToolRaises_AbortsRound ==
    /\ pc = "tools"
    /\ MoreBlocks(block_index, response.content)
    /\ CurrentBlock.type = "tool_use"
    /\ \E msg \in ErrorMessages :
        /\ tool_calls' = Append(tool_calls, [name |-> CurrentBlock.name,
                                             id |-> CurrentBlock.id,
                                             raised |-> TRUE, value |-> msg])
        /\ tool_results' = Append(tool_results,
                                  ToolResult(CurrentBlock.id, ErrorContent(msg)))
    /\ block_index' = Len(response.content) + 1
    /\ UNCHANGED <<loopOthers, args, system_content, messages, tool_rounds_used, api_params,
                   response, result, pc, api_calls>>

\* lines 130-133, 142-150: execute_tool raises and the exception is caught
ToolRaises ==
    /\ pc = "tools"
    /\ MoreBlocks(block_index, response.content)
    /\ CurrentBlock.type = "tool_use"
    /\ \E msg \in ErrorMessages :
        /\ tool_calls' = Append(tool_calls, [name |-> CurrentBlock.name,
                                             id |-> CurrentBlock.id,
                                             raised |-> TRUE, value |-> msg])
        /\ tool_results' = Append(tool_results,
                                  ToolResult(CurrentBlock.id, ErrorContent(msg)))
    /\ block_index' = block_index + 1
    /\ UNCHANGED <<loopOthers, args, system_content, messages, tool_rounds_used, api_params,
                   response, result, pc, api_calls>>

\* the counter advanced by the number of tool calls of the round
NextRound_PerToolCall(used) == used + Len(tool_results)

\* the counter left as it is at the end of a round
NextRound_NoIncrement(used) == used

\* line 106
NextRound(used) == used + 1

\* _execute_tools returning from inside its for loop
FinishRound_EarlyReturn ==
    /\ pc = "tools"
    /\ block_index > 1
    /\ messages' = Append(messages, [role |-> "user", content |-> tool_results])
    /\ tool_rounds_used' = tool_rounds_used + 1
    /\ pc' = "loop"
    /\ UNCHANGED <<loopOthers, args, system_content, api_params, response, block_index,
                   tool_results, result, api_calls, tool_calls>>

\* lines 151, 103-106: the round's results join the transcript
FinishRound ==
    /\ pc = "tools"
    /\ ~MoreBlocks(block_index, response.content)
    /\ messages' = Append(messages, [role |-> "user", content |-> tool_results])
    /\ tool_rounds_used' = NextRound(tool_rounds_used)
    /\ pc' = "loop"
    /\ UNCHANGED <<loopOthers, args, system_content, api_params, response, block_index,
                   tool_results, result, api_calls, tool_calls>>

\* line 115
FinalReturn ==
    /\ pc = "final"
    /\ result' = ContentText(response)
    /\ pc' = "done"
    /\ UNCHANGED <<loopOthers, args, system_content, messages, tool_rounds_used, api_params,
                   response, block_index, tool_results, api_calls, tool_calls>>

Next ==
    \/ Begin
    \/ LoopRequest
    \/ FinalRequest
    \/ ModelReturns
    \/ ModelRaises
    \/ ReturnResponse
    \/ StartRound
    \/ SkipBlock
    \/ ToolReturns
    \/ ToolRaises
    \/ FinishRound
    \/ FinalReturn

Spec == Init /\ [][Next]_vars

\* the interpreter runs the call to its end: every step that can be taken is taken
FairSpec == Spec /\ WF_vars(Next)

\* the calls that are given the tool specs and a tool manager, without a
\* conversation history
InitManaged ==
    /\ Init
    /\ conversation_history = None
    /\ tools = ToolSpecs
    /\ tool_manager = "manager"

SpecManaged == InitManaged /\ [][Next]_vars

----------------------------------------------------------------------------
(* Reading the transcript *)

\* the tool_use blocks of a response content, in order
ToolUses(content) == SelectSeq(content, LAMBDA b : b.type = "tool_use")

\* positions of the tool-result entries of a transcript
ResultEntries(msgs) == {j \in 2..Len(msgs) : msgs[j].role = "user"}

\* the model invocations whose response requested tools that were executed
ExecutedRounds == {tool_calls[i].id[1] : i \in 1..Len(tool_calls)}

\* the call has returned or raised
Done == pc = "done"

\* a model invocation raised
ModelFailed == result = [kind |-> "raise", value |-> "APIError"]

----------------------------------------------------------------------------
(* C1 .. C10: the orchestration loop *)

\* C1: one call of generate_response with max_tool_rounds = N >= 0 invokes
\* the model at most N + 1 times, whatever the model answers.
C1_ModelInvocationBound == Len(api_calls) <= max_tool_rounds + 1

\* the model requested a tool in every round and N + 1 invocations were made
C1_Witness ==
    /\ Done
    /\ max_tool_rounds >= 1
    /\ tool_rounds_used = max_tool_rounds
    /\ Len(api_calls) = max_tool_rounds + 1

\* C2: when no model invocation fails, generate_response ends by returning an
\* answer, which is the text of a response that requests no tool: either one
\* given before the round budget is used up, or the one of the final
\* invocation, made without tools once the budget is used up.
C2_ReturnsAnswer ==
    (Done /\ ~ModelFailed) =>
        /\ result.kind = "return"
        /\ response.stop_reason # "tool_use"
        /\ result.value = response.content[1].text
        /\ \/ tool_rounds_used < max_tool_rounds
           \/ tool_rounds_used = max_tool_rounds /\ "tools" \notin DOMAIN api_params

\* the call always comes to an end (checked under FairSpec)
Terminates == <>Done

\* C3: with a non-empty tool list, a model invocation offers the tools (and a
\* tool_choice) exactly when fewer than max_tool_rounds rounds are completed.
C3_ToolsOfferedIffBudgetLeft ==
    (tools # <<>> /\ pc \in {"await", "await_final"}) =>
        /\ "tools" \in DOMAIN api_params <=> tool_rounds_used < max_tool_rounds
        /\ "tool_choice" \in DOMAIN api_params <=> tool_rounds_used < max_tool_rounds
        /\ "tools" \in DOMAIN api_params => api_params.tools = tools

\* the invocation after the last round, earlier invocations having offered tools
C3_Witness ==
    /\ pc = "await_final"
    /\ tools # <<>>
    /\ max_tool_rounds >= 1
    /\ tool_rounds_used = max_tool_rounds
    /\ "tools" \in DOMAIN api_calls[1]
    /\ "tools" \notin DOMAIN api_params

\* C4 as stated: execute_tool is called at most max_tool_rounds times.
C4_ExecuteCallsAtMostRounds == Len(tool_calls) <= max_tool_rounds

\* C4 amended: tools are executed in at most max_tool_rounds rounds, once per
\* requested tool call, hence at most max_tool_rounds * MaxToolCalls times
\* when a response requests at most MaxToolCalls tools.
C4_ExecuteRoundsBound ==
    /\ Cardinality(ExecutedRounds) <= max_tool_rounds
    /\ Len(tool_calls) <= max_tool_rounds * MaxToolCalls

\* every round requested several tools: more executions than rounds
C4_Witness ==
    /\ Done
    /\ max_tool_rounds >= 1
    /\ Cardinality(ExecutedRounds) = max_tool_rounds
    /\ Len(tool_calls) > max_tool_rounds

\* the elements of a sequence
Range(seq) == {seq[i] : i \in 1..Len(seq)}

\* the execute_tool calls made for the response to model invocation number call
CallsOfRound(call) == SelectSeq(tool_calls, LAMBDA c : c.id[1] = call)

\* C5: a completed round holds one tool-result entry per requested tool call,
\* in request order, tagged with the request's id and carrying the
\* observation of that call, and each request was executed exactly once.
C5_OneResultPerRequest ==
    \A j \in ResultEntries(messages) :
        LET req == ToolUses(messages[j - 1].content)
            res == messages[j].content
            calls == CallsOfRound((j - 1) \div 2)
        IN  /\ Len(req) >= 1
            /\ Len(res) = Len(req)
            /\ Len(calls) = Len(req)
            /\ \A i \in 1..Len(req) :
                /\ res[i].type = "tool_result"
                /\ res[i].tool_use_id = req[i].id
                /\ calls[i].id = req[i].id
                /\ calls[i].name = req[i].name
                /\ ~calls[i].raised => res[i].content = calls[i].value

\* a completed round whose response held a text block and several requests
C5_Witness ==
    \E j \in ResultEntries(messages) :
        /\ messages[j - 1].content[1].type = "text"
        /\ Len(ToolUses(messages[j - 1].content)) >= 2
        /\ Len(messages[j].content) >= 2

\* the model is being invoked or its response awaits examination
Awaiting == pc \in {"await", "await_final"}

\* C6: a response without a tool request ends the call at once: its text is
\* returned with no further model invocation and no tool execution; a first
\* response of that kind leaves one invocation and no tool execution.
C6_NoToolRequestEndsLoop ==
    /\ [][(pc \in {"check", "final"} /\ response.stop_reason # "tool_use") =>
            /\ pc' = "done"
            /\ result' = [kind |-> "return", value |-> response.content[1].text]
            /\ UNCHANGED <<api_calls, tool_calls, messages>>
            /\ Len(api_calls) = 1 => (Len(api_calls') = 1 /\ tool_calls' = <<>>)]_vars
    /\ [][~Done]_vars

\* a first response without a tool request, tools and a manager being supplied
C6_Witness ==
    /\ Done
    /\ tools # <<>> /\ tool_manager = "manager" /\ max_tool_rounds >= 1
    /\ result.kind = "return"
    /\ Len(api_calls) = 1
    /\ tool_calls = <<>>

\* C7: a tool execution that raises does not fail the call: the failure is a
\* tool-result entry "Tool execution error: <message>" tagged with the id of
\* the failing request, it is in the last transcript entry of the next model
\* invocation, and the call returns the model's answer unless a model
\* invocation fails.
C7_ToolErrorContained ==
    \A i \in 1..Len(tool_calls) :
        tool_calls[i].raised =>
            LET call == tool_calls[i].id[1]
                entry == [type |-> "tool_result",
                          tool_use_id |-> tool_calls[i].id,
                          content |-> "Tool execution error: " \o tool_calls[i].value]
            IN  /\ result.kind = "raise" => ModelFailed
                /\ (pc = "tools" /\ call = Len(api_calls)) => entry \in Range(tool_results)
                /\ Len(messages) >= 2 * call + 1 =>
                        entry \in Range(messages[2 * call + 1].content)
                /\ Len(api_calls) >= call + 1 =>
                        LET sent == api_calls[call + 1].messages
                        IN  /\ sent[Len(sent)].role = "user"
                            /\ entry \in Range(sent[Len(sent)].content)
                /\ (Done /\ ~ModelFailed) =>
                        /\ response.stop_reason # "tool_use"
                        /\ result = [kind |-> "return", value |-> response.content[1].text]

\* a tool raised, the model was invoked again and its answer was returned
C7_Witness ==
    /\ Done
    /\ result.kind = "return"
    /\ \E i \in 1..Len(tool_calls) : tool_calls[i].raised
    /\ \E i \in 1..Len(tool_calls) : ~tool_calls[i].raised

\* C8: a model invocation that fails ends the call with the error: the error
\* is what generate_response raises, and no model invocation (no retry) and
\* no tool execution follows it.
C8_ModelFailureIsFatal ==
    /\ [][(Awaiting /\ pc' \notin {"check", "final"}) =>
            /\ pc' = "done"
            /\ result' = [kind |-> "raise", value |-> "APIError"]
            /\ UNCHANGED <<api_calls, tool_calls, messages, tool_rounds_used>>]_vars
    /\ [][~ModelFailed]_vars

\* the forced final invocation failed after rounds that executed tools
C8_Witness ==
    /\ ModelFailed
    /\ Done
    /\ max_tool_rounds >= 1
    /\ tool_rounds_used = max_tool_rounds
    /\ Len(api_calls) = max_tool_rounds + 1

\* C9: the round counter starts at 0, counts the completed tool rounds (one per
\* round, whatever the number of tool calls in it) and never exceeds
\* max_tool_rounds.
C9_RoundCounter ==
    /\ tool_rounds_used \in 0..max_tool_rounds
    /\ tool_rounds_used = Cardinality(ResultEntries(messages))
    /\ pc = "entry" => tool_rounds_used = 0

\* the budget is used up by rounds of several tool calls each
C9_Witness ==
    /\ max_tool_rounds >= 2
    /\ tool_rounds_used = max_tool_rounds
    /\ Len(tool_calls) > tool_rounds_used

\* number of tool requests and of tool results in a transcript
NumRequests(msgs) ==
    Cardinality({<<j, i>> \in (1..Len(msgs)) \X (1..(MaxToolCalls + 1)) :
                    /\ msgs[j].role = "assistant"
                    /\ i <= Len(msgs[j].content)
                    /\ msgs[j].content[i].type = "tool_use"})
NumResults(msgs) ==
    Cardinality({<<j, i>> \in (2..Len(msgs)) \X (1..(MaxToolCalls + 1)) :
                    /\ msgs[j].role = "user"
                    /\ i <= Len(msgs[j].content)})

\* C10: model invocations and tool-execution phases alternate: a model
\* invocation is made only when every earlier response has been received and
\* every tool it requested has been executed and answered in the transcript
\* sent, and tools are executed only for the response of the latest
\* invocation, after it has been received.
C10_StrictAlternation ==
    /\ pc = "loop" => Len(api_calls) = tool_rounds_used
    /\ pc \in {"await", "await_final", "check", "final", "tools"} =>
            Len(api_calls) = tool_rounds_used + 1
    /\ Awaiting =>
            /\ api_params.messages = messages
            /\ Len(tool_calls) = NumRequests(api_params.messages)
            /\ NumResults(api_params.messages) = NumRequests(api_params.messages)
    /\ \A i \in 1..Len(tool_calls) :
            /\ tool_calls[i].id[1] <= Len(api_calls)
            /\ i > 1 => tool_calls[i - 1].id[1] <= tool_calls[i].id[1]
    /\ pc = "tools" =>
            /\ response.stop_reason = "tool_use"
            /\ \A b \in Range(ToolUses(response.content)) : b.id[1] = Len(api_calls)
            /\ Len(CallsOfRound(Len(api_calls))) =
                    Len(ToolUses(SubSeq(response.content, 1, block_index - 1)))

\* a second round's model invocation, made after a first round of two tools
C10_Witness ==
    /\ pc = "await"
    /\ Len(api_calls) = 2
    /\ Len(tool_calls) = 2


----------------------------------------------------------------------------
(* The agent of langchain-agentic-rag: text, tools and source extraction.  *)
(*                                                                         *)
(* A text is a sequence of tokens.  The tokens the code looks for         *)
(* ("Title:", "Content:", "---", newline, blank) are tokens of their own;  *)
(* every other token is a word containing none of them.                    *)

\* bound: hits one knowledge_search returns (max_results)
MaxHits == 2

\* bound: tool runs of one query (the executor's max_iterations)
MaxAgentSteps == 2

NL == "\n"

Whitespace == {" ", NL}

\* str.strip(), left part
RECURSIVE LStrip(_)
LStrip(s) == IF s # <<>> /\ Head(s) \in Whitespace THEN LStrip(Tail(s)) ELSE s

\* str.strip(), right part
RECURSIVE RStrip(_)
RStrip(s) ==
    IF s # <<>> /\ s[Len(s)] \in Whitespace
    THEN RStrip(SubSeq(s, 1, Len(s) - 1))
    ELSE s

\* str.strip()
Strip(s) == RStrip(LStrip(s))

\* sep in s
Contains(s, sep) == \E i \in 1..Len(s) : s[i] = sep

\* s.split(sep)
RECURSIVE Split(_, _)
Split(s, sep) ==
    IF Contains(s, sep)
    THEN LET i == CHOOSE k \in 1..Len(s) :
                      s[k] = sep /\ \A j \in 1..(k - 1) : s[j] # sep
         IN  <<SubSeq(s, 1, i - 1)>> \o Split(SubSeq(s, i + 1, Len(s)), sep)
    ELSE <<s>>

\* sep.join(parts)
RECURSIVE Join(_, _)
Join(parts, sep) ==
    IF parts = <<>> THEN <<>>
    ELSE IF Len(parts) = 1 THEN parts[1]
    ELSE parts[1] \o <<sep>> \o Join(Tail(parts), sep)

\* s.replace(old, "")
Remove(s, old) == SelectSeq(s, LAMBDA t : t # old)

\* s.startswith(prefix)
StartsWith(s, prefix) == s # <<>> /\ s[1] = prefix

\* the queries in flight
Queries == {"q1", "q2"}

\* a chunk of the index as a search sees it: its title metadata and its text
Chunk(title, content) == [title |-> title, content |-> content]

\* an index whose chunks exercise the parsing of an observation: two chunks
\* with one title, a title with surrounding blanks, a title of blanks only,
\* texts that mention "Title:" inside a line, hold a separator line, or hold
\* a line of their own that starts with "Title:"
RichCollection ==
    << Chunk(<<"Guide">>, <<"alpha">>),
       Chunk(<<" ", "Guide", " ">>, <<"see", " ", "Title:", " ", "beta", NL, "---", NL, "tail">>),
       Chunk(<<"Notes">>, <<"gamma", NL, "Title:", " ", "Forged">>),
       Chunk(<<" ">>, <<"delta">>) >>

\* an index of two plainly titled chunks
SmallCollection ==
    << Chunk(<<"Guide">>, <<"alpha">>),
       Chunk(<<"Notes">>, <<"gamma">>) >>

NoDocumentsFound == <<"No relevant documents found in the knowledge base.">>

SearchError == <<"Error searching knowledge base: failure">>

\* agent_tools.py lines 54-59: one formatted result
FormatResult(hit) ==
    <<NL, "Result", NL, "Title:", " ">> \o hit.title
        \o <<NL, "Content:", " ">> \o hit.content \o <<NL, "---", NL>>

\* a search tool that answers a search without hits with an empty text
FormatResults_EmptyText(results) ==
    IF results = <<>>
    THEN <<>>
    ELSE Join([i \in 1..Len(results) |-> FormatResult(results[i])], NL)

\* agent_tools.py lines 44-62: the observation of a successful search
FormatResults(results) ==
    IF results = <<>>
    THEN NoDocumentsFound
    ELSE Join([i \in 1..Len(results) |-> FormatResult(results[i])], NL)

\* agent_tools.py lines 166-172: one listed document
FormatDocument(doc) ==
    <<NL, "1.", " ", "Title:", " ">> \o doc.title
        \o <<NL, " ", "Preview:", " ">> \o doc.content \o <<NL, "---", NL>>

\* agent_tools.py lines 157-181: the observation of list_documents
FormatDocuments(docs) ==
    IF docs = <<>>
    THEN <<"No documents found in the knowledge base.">>
    ELSE <<"Documents in Knowledge Base", NL>>
             \o Join([i \in 1..Len(docs) |-> FormatDocument(docs[i])], NL)

\* the sequences of at most k distinct positions of coll
Selections(coll, k) ==
    UNION {{sel \in [1..n -> 1..Len(coll)] :
               \A i, j \in 1..n : i # j => sel[i] # sel[j]} : n \in 0..k}

\* knowledge_base.py lines 133-143: the hits of a search, best first
SearchResults(coll) ==
    {[i \in 1..Len(sel) |-> coll[sel[i]]] : sel \in Selections(coll, MaxHits)}

Step(tool, observation) == [tool |-> tool, observation |-> observation]

\* a tool run whose work met no failure, and the hits it retrieved
Run(tool, hits) == [tool |-> tool, hits |-> hits, failed |-> FALSE]

\* a tool run during which the knowledge base or the index failed
FailedRun(tool) == [tool |-> tool, hits |-> <<>>, failed |-> TRUE]

\* agent_tools.py lines 109-116: the observation of document_stats
StatsText(total_documents, total_chunks) ==
    <<NL, "Knowledge Base Statistics:", NL,
      "- Total Documents:", " ", ToString(total_documents), NL,
      "- Total Chunks:", " ", ToString(total_chunks), NL,
      "- Total Embeddings:", " ", ToString(total_chunks), NL>>

Source(title) == [title |-> title, type |-> "knowledge_base", tool |-> "knowledge_search"]

\* agent.py lines 150-155: the title of one piece of an observation
RECURSIVE PieceTitle(_)
PieceTitle(lines) ==
    IF lines = <<>> THEN <<>>
    ELSE IF StartsWith(Head(lines), "Title:")
         THEN Strip(Remove(Head(lines), "Title:"))
         ELSE PieceTitle(Tail(lines))

\* agent.py lines 147-162: the sources of the pieces of an observation
RECURSIVE PieceSources(_)
PieceSources(pieces) ==
    IF pieces = <<>> THEN <<>>
    ELSE LET piece == Head(pieces)
             title == PieceTitle(Split(Strip(piece), NL))
         IN  (IF Contains(piece, "Title:") /\ title # <<>>
              THEN <<Source(title)>>
              ELSE <<>>) \o PieceSources(Tail(pieces))

\* agent.py lines 140-162: the sources of one step
StepSources(step) ==
    IF /\ step.tool = "knowledge_search"
       /\ Contains(step.observation, "Title:")
       /\ Contains(step.observation, "Content:")
    THEN PieceSources(Split(step.observation, "---"))
    ELSE <<>>

\* agent.py lines 139-162: the sources of all steps
RECURSIVE AllSources(_)
AllSources(steps) ==
    IF steps = <<>> THEN <<>>
    ELSE StepSources(Head(steps)) \o AllSources(Tail(steps))

Unique_KeepAll(sources) == sources

\* agent.py lines 164-170: remove duplicates, keep the first of each title
RECURSIVE Unique(_)
Unique(sources) ==
    IF sources = <<>> THEN <<>>
    ELSE LET last == sources[Len(sources)]
             rest == Unique(SubSeq(sources, 1, Len(sources) - 1))
         IN  IF \E i \in 1..Len(rest) : rest[i].title = last.title
             THEN rest
             ELSE Append(rest, last)

ExtractSources_LastStepOnly(steps) ==
    IF steps = <<>> THEN <<>> ELSE Unique(StepSources(steps[Len(steps)]))

\* agent.py lines 135-172: _extract_sources
ExtractSources(steps) == Unique(AllSources(steps))

\* one query at a time over the rich index or over an empty one
InitAgent ==
    /\ LoopIdle
    /\ ChunkIdle
    /\ KbIdle
    /\ SessionIdle
    /\ ResolveIdle
    /\ collection \in {RichCollection, <<>>}
    /\ agent_pc = [q \in {"q1"} |-> "idle"]
    /\ intermediate_steps = [q \in {"q1"} |-> <<>>]
    /\ query_sources = [q \in {"q1"} |-> None]
    /\ tool_runs = [q \in {"q1"} |-> <<>>]

\* two queries over the small index
InitQueries ==
    /\ LoopIdle
    /\ ChunkIdle
    /\ KbIdle
    /\ SessionIdle
    /\ ResolveIdle
    /\ collection = SmallCollection
    /\ agent_pc = [q \in Queries |-> "idle"]
    /\ intermediate_steps = [q \in Queries |-> <<>>]
    /\ query_sources = [q \in Queries |-> None]
    /\ tool_runs = [q \in Queries |-> <<>>]

\* agent.py lines 73-90: query is called and the executor starts
StartQuery(q) ==
    /\ agent_pc[q] = "idle"
    /\ agent_pc' = [agent_pc EXCEPT ![q] = "running"]
    /\ intermediate_steps' = [intermediate_steps EXCEPT ![q] = <<>>]
    /\ UNCHANGED <<agentOthers, collection, query_sources, tool_runs>>

RunKnowledgeSearch_SharedSteps(q) ==
    /\ agent_pc[q] = "running"
    /\ Len(intermediate_steps[q]) < MaxAgentSteps
    /\ \E results \in SearchResults(collection) :
          /\ intermediate_steps' =
                 [c \in DOMAIN intermediate_steps |->
                     IF agent_pc[c] = "running" /\ Len(intermediate_steps[c]) < MaxAgentSteps
                     THEN Append(intermediate_steps[c],
                                 Step("knowledge_search", FormatResults(results)))
                     ELSE intermediate_steps[c]]
          /\ tool_runs' = [tool_runs EXCEPT
                 ![q] = Append(@, Run("knowledge_search", results))]
    /\ UNCHANGED <<agentOthers, collection, agent_pc, query_sources>>

\* agent_tools.py lines 31-62: the agent of query q runs knowledge_search
RunKnowledgeSearch(q) ==
    /\ agent_pc[q] = "running"
    /\ Len(intermediate_steps[q]) < MaxAgentSteps
    /\ \E results \in SearchResults(collection) :
          /\ intermediate_steps' = [intermediate_steps EXCEPT
                 ![q] = Append(@, Step("knowledge_search", FormatResults(results)))]
          /\ tool_runs' = [tool_runs EXCEPT
                 ![q] = Append(@, Run("knowledge_search", results))]
    /\ UNCHANGED <<agentOthers, collection, agent_pc, query_sources>>

\* agent_tools.py lines 64-66: the search raises inside knowledge_search
SearchFails(q) ==
    /\ agent_pc[q] = "running"
    /\ Len(intermediate_steps[q]) < MaxAgentSteps
    /\ intermediate_steps' = [intermediate_steps EXCEPT
           ![q] = Append(@, Step("knowledge_search", SearchError))]
    /\ tool_runs' = [tool_runs EXCEPT ![q] = Append(@, FailedRun("knowledge_search"))]
    /\ UNCHANGED <<agentOthers, collection, agent_pc, query_sources>>

\* agent_tools.py lines 152-181: the agent of query q runs list_documents
RunListDocuments(q) ==
    /\ agent_pc[q] = "running"
    /\ Len(intermediate_steps[q]) < MaxAgentSteps
    /\ intermediate_steps' = [intermediate_steps EXCEPT
           ![q] = Append(@, Step("list_documents", FormatDocuments(collection)))]
    /\ tool_runs' = [tool_runs EXCEPT ![q] = Append(@, Run("list_documents", <<>>))]
    /\ UNCHANGED <<agentOthers, collection, agent_pc, query_sources>>

\* agent_tools.py lines 104-116, knowledge_base.py lines 152-165,
\* vector_store.py lines 144-162: the agent of query q runs document_stats
RunDocumentStats(q) ==
    /\ agent_pc[q] = "running"
    /\ Len(intermediate_steps[q]) < MaxAgentSteps
    /\ intermediate_steps' = [intermediate_steps EXCEPT
           ![q] = Append(@, Step("document_stats",
                                 StatsText(Len(collection), Len(collection))))]
    /\ tool_runs' = [tool_runs EXCEPT ![q] = Append(@, Run("document_stats", <<>>))]
    /\ UNCHANGED <<agentOthers, collection, agent_pc, query_sources>>

\* vector_store.py lines 164-171, knowledge_base.py lines 155-165,
\* agent_tools.py lines 107-116: the index fails while document_stats runs;
\* get_collection_stats answers with zero counts and the tool formats them
DocumentStatsIndexFails(q) ==
    /\ agent_pc[q] = "running"
    /\ Len(intermediate_steps[q]) < MaxAgentSteps
    /\ intermediate_steps' = [intermediate_steps EXCEPT
           ![q] = Append(@, Step("document_stats", StatsText(Len(collection), 0)))]
    /\ tool_runs' = [tool_runs EXCEPT ![q] = Append(@, FailedRun("document_stats"))]
    /\ UNCHANGED <<agentOthers, collection, agent_pc, query_sources>>

\* agent.py lines 93-101: the executor returns and the response is built
AgentFinish(q) ==
    /\ agent_pc[q] = "running"
    /\ agent_pc' = [agent_pc EXCEPT ![q] = "done"]
    /\ query_sources' = [query_sources EXCEPT ![q] = ExtractSources(intermediate_steps[q])]
    /\ UNCHANGED <<agentOthers, collection, intermediate_steps, tool_runs>>

\* agent.py lines 103-105: the executor raises and query raises; no response
\* is built and the steps of the call are gone with it
AgentRaises(q) ==
    /\ agent_pc[q] = "running"
    /\ agent_pc' = [agent_pc EXCEPT ![q] = "failed"]
    /\ intermediate_steps' = [intermediate_steps EXCEPT ![q] = <<>>]
    /\ tool_runs' = [tool_runs EXCEPT ![q] = <<>>]
    /\ UNCHANGED <<agentOthers, collection, query_sources>>

\* one query with the three tools of agent_tools.py
NextAgent ==
    \/ \E q \in DOMAIN agent_pc : StartQuery(q)
    \/ \E q \in DOMAIN agent_pc : RunKnowledgeSearch(q)
    \/ \E q \in DOMAIN agent_pc : SearchFails(q)
    \/ \E q \in DOMAIN agent_pc : RunListDocuments(q)
    \/ \E q \in DOMAIN agent_pc : RunDocumentStats(q)
    \/ \E q \in DOMAIN agent_pc : DocumentStatsIndexFails(q)
    \/ \E q \in DOMAIN agent_pc : AgentFinish(q)
    \/ \E q \in DOMAIN agent_pc : AgentRaises(q)

\* concurrent queries with the tool runs whose observations hold titles
NextQueries ==
    \/ \E q \in DOMAIN agent_pc : StartQuery(q)
    \/ \E q \in DOMAIN agent_pc : RunKnowledgeSearch(q)
    \/ \E q \in DOMAIN agent_pc : RunListDocuments(q)
    \/ \E q \in DOMAIN agent_pc : AgentFinish(q)
    \/ \E q \in DOMAIN agent_pc : AgentRaises(q)

SpecAgent == InitAgent /\ [][NextAgent]_vars

SpecQueries == InitQueries /\ [][NextQueries]_vars

----------------------------------------------------------------------------
(* Reading the responses of the agent *)

\* query q has returned a response
Returned(q) == agent_pc[q] = "done"

\* the label a hit carries: its title without the blanks around it
Label(hit) == Strip(hit.title)

\* the labels of the hits of one tool run, in hit order, blank titles left out
RunLabelSeq(run) ==
    SelectSeq([i \in 1..Len(run.hits) |-> Label(run.hits[i])], LAMBDA l : l # <<>>)

\* the labels of the hits of the tool runs made for a query, in order
RECURSIVE LabelSeq(_)
LabelSeq(runs) ==
    IF runs = <<>> THEN <<>> ELSE RunLabelSeq(Head(runs)) \o LabelSeq(Tail(runs))

\* the labels one tool run produced
RunLabels(run) == Range(RunLabelSeq(run))

\* the labels the tool runs of query q produced
OwnLabels(q) == Range(LabelSeq(tool_runs[q]))

\* the titles of a source list
Titles(sources) == {sources[i].title : i \in 1..Len(sources)}

\* the first position of label l in seq
FirstSeen(seq, l) ==
    CHOOSE i \in 1..Len(seq) : seq[i] = l /\ \A j \in 1..(i - 1) : seq[j] # l

----------------------------------------------------------------------------
----------------------------------------------------------------------------
----------------------------------------------------------------------------
----------------------------------------------------------------------------
(* The chunker of langchain-agentic-rag: VectorStore._create_chunks.       *)
(*                                                                         *)
(* A body is a sequence of characters; positions are counted from 0 as in  *)
(* the code.  One behaviour chunks one document twice with one setting.    *)

\* bound: length of a document body
MaxTextLen == 5

\* bound: settings.chunk_size
MaxChunkSize == 3

\* bound: settings.chunk_overlap; larger than MaxChunkSize
MaxOverlap == 4

\* a letter, a blank, a sentence end
Alphabet == {"a", " ", "."}

Texts == UNION {[1..n -> Alphabet] : n \in 0..MaxTextLen}

\* vector_store.py line 192: the characters a window may end on
BreakCharacters == {" ", NL, ".", "!", "?"}

Max2(a, b) == IF a >= b THEN a ELSE b

Min2(a, b) == IF a <= b THEN a ELSE b

\* content[i]
At(content, i) == content[i + 1]

\* content[from:to] for 0 <= from
Slice(content, from, to) == SubSeq(content, from + 1, Min2(to, Len(content)))

\* vector_store.py lines 192-193: move the end back to a break character
RECURSIVE ScanBack(_, _, _)
ScanBack(content, from, to) ==
    IF to > from /\ At(content, to) \notin BreakCharacters
    THEN ScanBack(content, from, to - 1)
    ELSE to

\* the end of the window without the fallback to the raw cut
WindowEnd_NoFallback(content, from, size) ==
    LET raw == from + size
    IN  IF raw < Len(content) THEN ScanBack(content, from, raw) ELSE raw

\* vector_store.py lines 186-197: the end of the window that starts at from
WindowEnd(content, from, size) ==
    LET raw == from + size
    IN  IF raw < Len(content)
        THEN LET cut == ScanBack(content, from, raw)
             IN  IF cut = from THEN raw ELSE cut
        ELSE raw

ChunkContent_Raw(content, from, to) == Slice(content, from, to)

\* vector_store.py line 199
ChunkContent(content, from, to) == Strip(Slice(content, from, to))

\* vector_store.py lines 201-211
NewChunk(id, text, ordinal, from, to) ==
    [id |-> id, document_id |-> "doc", content |-> text, chunk_index |-> ordinal,
     metadata |-> [start_pos |-> from, end_pos |-> to, chunk_length |-> Len(text)]]

NextChunkIndex_PerWindow(ordinal, produced) == ordinal + 1

\* vector_store.py lines 200 and 213
NextChunkIndex(ordinal, produced) == IF produced THEN ordinal + 1 ELSE ordinal

NextStart_Stalls(from, to, overlap) == Max2(from, to - overlap)

\* the overlap added to the cut instead of taken from it
NextStart_PastCut(from, to, overlap) == Max2(from + 1, to + overlap)

\* vector_store.py line 216
NextStart(from, to, overlap) == Max2(from + 1, to - overlap)

\* one window: its start and its end
Window(from, to) == [start |-> from, end |-> to]

InitChunk ==
    /\ LoopIdle
    /\ AgentIdle
    /\ KbIdle
    /\ SessionIdle
    /\ ResolveIdle
    /\ doc_content \in Texts
    /\ chunk_size \in 1..MaxChunkSize
    /\ chunk_overlap \in 0..MaxOverlap
    /\ chunk_pc = "entry"
    /\ start = 0
    /\ chunk_index = 0
    /\ chunks = <<>>
    /\ windows = <<>>
    /\ uuids = 0
    /\ chunking_run = 1
    /\ first_chunks = <<>>

BeginChunking_KeepIndex ==
    /\ chunk_pc = "entry"
    /\ chunks' = <<>>
    /\ start' = 0
    /\ windows' = <<>>
    /\ chunk_pc' = "loop"
    /\ UNCHANGED <<chunkOthers, doc_content, chunk_size, chunk_overlap, chunk_index,
                   uuids, chunking_run, first_chunks>>

\* vector_store.py lines 175-181: the locals of _create_chunks
BeginChunking ==
    /\ chunk_pc = "entry"
    /\ chunks' = <<>>
    /\ chunk_index' = 0
    /\ start' = 0
    /\ windows' = <<>>
    /\ chunk_pc' = "loop"
    /\ UNCHANGED <<chunkOthers, doc_content, chunk_size, chunk_overlap, uuids,
                   chunking_run, first_chunks>>

\* vector_store.py lines 183-216: one pass of the loop
ProcessWindow ==
    /\ chunk_pc = "loop"
    /\ start < Len(doc_content)
    /\ LET end      == WindowEnd(doc_content, start, chunk_size)
           text     == ChunkContent(doc_content, start, end)
           produced == text # <<>>
       IN  /\ chunks' = IF produced
                        THEN Append(chunks, NewChunk(uuids + 1, text, chunk_index, start, end))
                        ELSE chunks
           /\ uuids' = IF produced THEN uuids + 1 ELSE uuids
           /\ chunk_index' = NextChunkIndex(chunk_index, produced)
           /\ start' = NextStart(start, end, chunk_overlap)
           /\ windows' = Append(windows, Window(start, end))
    /\ UNCHANGED <<chunkOthers, doc_content, chunk_size, chunk_overlap, chunk_pc,
                   chunking_run, first_chunks>>

\* vector_store.py lines 183, 217-221: the loop ends and the chunks are returned
ReturnChunks ==
    /\ chunk_pc = "loop"
    /\ start >= Len(doc_content)
    /\ chunk_pc' = "returned"
    /\ UNCHANGED <<chunkOthers, doc_content, chunk_size, chunk_overlap, start, chunk_index,
                   chunks, windows, uuids, chunking_run, first_chunks>>

\* vector_store.py line 45: the same document is chunked once more
ChunkAgain ==
    /\ chunk_pc = "returned"
    /\ chunking_run = 1
    /\ first_chunks' = chunks
    /\ chunking_run' = 2
    /\ chunk_pc' = "entry"
    /\ UNCHANGED <<chunkOthers, doc_content, chunk_size, chunk_overlap, start, chunk_index,
                   chunks, windows, uuids>>

NextChunk ==
    \/ BeginChunking
    \/ ProcessWindow
    \/ ReturnChunks
    \/ ChunkAgain

SpecChunk == InitChunk /\ [][NextChunk]_vars

\* the call runs to its end
FairSpecChunk == SpecChunk /\ WF_vars(NextChunk)

----------------------------------------------------------------------------
(* Reading the chunks *)

\* the call of _create_chunks has returned
ChunksReturned == chunk_pc = "returned"

\* the text of a window before trimming
WindowText(w) == Slice(doc_content, w.start, w.end)

\* what a chunk says apart from its identifier
Outline(c) ==
    [start_pos |-> c.metadata.start_pos, end_pos |-> c.metadata.end_pos,
     content |-> c.content, chunk_index |-> c.chunk_index]

\* the boundaries, texts and ordinal indices of a chunk list, in order
Outlines(cs) == [k \in 1..Len(cs) |-> Outline(cs[k])]

----------------------------------------------------------------------------
(* C14: chunking terminates for every text, chunk_size > 0 and overlap >=  *)
(* 0, overlap >= chunk_size included: the start of each window is strictly *)
(* greater than that of the window before it, the next start is strictly   *)
(* greater than the start of the last window, and no more windows are      *)
(* processed than the text has characters.                                 *)
C14_StartStrictlyIncreases ==
    /\ Len(windows) <= Len(doc_content)
    /\ \A i \in 1..(Len(windows) - 1) : windows[i].start < windows[i + 1].start
    /\ \A i \in 1..Len(windows) : 0 <= windows[i].start /\ windows[i].start < Len(doc_content)
    /\ (windows # <<>> /\ chunk_pc \in {"loop", "returned"}) =>
           windows[Len(windows)].start < start

\* with an overlap larger than the chunk size the call returned after one
\* window per character
C14_Witness ==
    /\ ChunksReturned
    /\ chunk_overlap > chunk_size
    /\ chunk_size > 1
    /\ Len(doc_content) >= 3
    /\ Len(windows) = Len(doc_content)

----------------------------------------------------------------------------
(* C15: the chunks produced for one document carry the ordinal indices     *)
(* 0, 1, ..., n-1 in production order, also when windows between them were *)
(* discarded as empty.                                                     *)
C15_ContiguousIndices ==
    /\ \A k \in 1..Len(chunks) : chunks[k].chunk_index = k - 1
    /\ \A k \in 1..Len(first_chunks) : first_chunks[k].chunk_index = k - 1
    /\ chunk_pc \in {"loop", "returned"} => chunk_index = Len(chunks)

\* a window between two produced chunks was discarded
C15_Witness ==
    /\ ChunksReturned
    /\ \E i \in 1..Len(windows) :
          /\ Strip(WindowText(windows[i])) = <<>>
          /\ \E k \in 1..(Len(chunks) - 1) :
                /\ chunks[k].metadata.start_pos < windows[i].start
                /\ chunks[k + 1].metadata.start_pos > windows[i].start

----------------------------------------------------------------------------
(* C16: every produced chunk has a non-empty text that neither begins nor  *)
(* ends with whitespace, and a recorded span whose end is greater than its *)
(* start; a body that is empty or all whitespace produces no chunk.        *)
C16_TrimmedNonEmptyChunks ==
    /\ \A k \in 1..Len(chunks) :
          LET c == chunks[k]
          IN  /\ c.content # <<>>
              /\ c.content[1] \notin Whitespace
              /\ c.content[Len(c.content)] \notin Whitespace
              /\ c.metadata.end_pos > c.metadata.start_pos
    /\ Strip(doc_content) = <<>> => chunks = <<>>

\* a chunk was cut from a window with whitespace around its text
C16_Witness ==
    /\ ChunksReturned
    /\ \E k \in 1..Len(chunks) :
          /\ chunks[k].content #
                 Slice(doc_content, chunks[k].metadata.start_pos, chunks[k].metadata.end_pos)
          /\ Len(chunks[k].content) >= 2

----------------------------------------------------------------------------
----------------------------------------------------------------------------
(* The knowledge base of langchain-agentic-rag: KnowledgeBase over the     *)
(* VectorStore.  The calls run on one event loop and the coroutines they   *)
(* await never suspend, so each call runs from its first line to its       *)
(* return or raise without another call in between.                        *)

\* bound: calls made to the knowledge base
MaxOps == 3

\* the identifiers uuid4 hands out, each at most once
DocIds == {"d1", "d2"}

\* document bodies: each makes more than one chunk at the smaller chunk sizes
Bodies == {<<"a", ".", "a", "a">>, <<"a", "a", " ", "a">>}

\* user-supplied metadata: a key of the user's own, and a key the index uses
Metadatas == {[source |-> "upload"], [document_id |-> "d2"]}

\* metadata=None
NoMetadata == [none |-> TRUE]

\* content=None
NoContent == <<None>>

\* {**a, **b}, a.update(b)
Merge(a, b) == b @@ a

\* knowledge_base.py line 35: metadata or {}
OrEmpty(metadata) == IF metadata = NoMetadata THEN <<>> ELSE metadata

\* knowledge_base.py lines 31-36
Document(id, title, content, metadata) ==
    [id |-> id, title |-> title, content |-> content, metadata |-> OrEmpty(metadata)]

\* vector_store.py lines 183-221 as one function: the chunks of a body from
\* position from on
RECURSIVE CreateChunksFrom(_, _, _, _, _)
CreateChunksFrom(content, size, overlap, from, ordinal) ==
    IF from >= Len(content) THEN <<>>
    ELSE LET end      == WindowEnd(content, from, size)
             text     == ChunkContent(content, from, end)
             produced == text # <<>>
         IN  (IF produced THEN <<NewChunk(ordinal, text, ordinal, from, end)>> ELSE <<>>)
                 \o CreateChunksFrom(content, size, overlap, NextStart(from, end, overlap),
                                     NextChunkIndex(ordinal, produced))

\* vector_store.py lines 173-221: the chunks of a document; call names the
\* call that draws the identifiers
CreateChunks(document, call) ==
    LET made == CreateChunksFrom(document.content, chunk_size, chunk_overlap, 0, 0)
    IN  [k \in 1..Len(made) |->
            [made[k] EXCEPT !.id = <<call, made[k].chunk_index>>,
                            !.document_id = document.id]]

\* vector_store.py lines 52-59: the metadata stored with a chunk
ChunkMetadata(document, chunk) ==
    Merge(Merge([document_id |-> chunk.document_id, chunk_id |-> chunk.id,
                 chunk_index |-> chunk.chunk_index, title |-> document.title],
                chunk.metadata),
          document.metadata)

\* vector_store.py lines 49-68: the entries add_document puts into the
\* collection; owner remembers the document the entry was made for
Entries(document, call) ==
    LET made == CreateChunks(document, call)
    IN  {[id |-> made[k].id, page_content |-> made[k].content,
          metadata |-> ChunkMetadata(document, made[k]), owner |-> document.id]
            : k \in 1..Len(made)}

\* vector_store.py lines 127-129: collection.get(where={"document_id": id})
Matching(entries, document_id) ==
    {e \in entries : e.metadata.document_id = document_id}

\* vector_store.py lines 131-138: the collection after delete_document
AfterDelete(entries, document_id) == entries \ Matching(entries, document_id)

\* an identifier uuid4 has not handed out yet
Fresh(id) == id \in DocIds \ issued /\ (id = "d2" => "d1" \in issued)

Call(op, id, returned) == [op |-> op, id |-> id, returned |-> returned]

\* vector_store.py lines 21-39, knowledge_base.py lines 17-19: an empty
\* collection and an empty document map, under the chunk settings
NewKnowledgeBase ==
    /\ doc_content = <<>>
    /\ chunk_size \in {MaxChunkSize - 1, MaxChunkSize}
    /\ chunk_overlap = 0
    /\ chunk_pc = "idle"
    /\ start = 0
    /\ chunk_index = 0
    /\ chunks = <<>>
    /\ windows = <<>>
    /\ uuids = 0
    /\ chunking_run = 1
    /\ first_chunks = <<>>
    /\ documents = <<>>
    /\ chroma = {}
    /\ issued = {}
    /\ ops = 0
    /\ last_op = Call("none", "", "")

InitKb ==
    /\ LoopIdle
    /\ AgentIdle
    /\ SessionIdle
    /\ ResolveIdle
    /\ NewKnowledgeBase

\* knowledge_base.py lines 21-54: add_document; the index may raise
AddDocument ==
    /\ ops < MaxOps
    /\ \E id \in DocIds, content \in Bodies, metadata \in Metadatas \cup {NoMetadata},
          index_raises \in BOOLEAN :
          LET document == Document(id, "Title", content, metadata)
          IN  /\ Fresh(id)
              /\ issued' = issued \cup {id}
              /\ documents' = (id :> document) @@ documents
              /\ IF index_raises
                 THEN /\ chroma' = chroma
                      /\ last_op' = Call("add", id, "raised")
                 ELSE /\ chroma' = chroma \cup Entries(document, ops + 1)
                      /\ last_op' = Call("add", id, "response")
    /\ ops' = ops + 1
    /\ UNCHANGED <<kbOthers, chunk_size, chunk_overlap>>

\* knowledge_base.py lines 64-98: update_document; each index call may raise
UpdateDocument ==
    /\ ops < MaxOps
    /\ \E id \in DocIds, title \in {None, "Retitled"}, content \in Bodies \cup {NoContent},
          metadata \in Metadatas \cup {NoMetadata}, delete_raises, add_raises \in BOOLEAN :
          IF id \notin DOMAIN documents
          THEN /\ last_op' = Call("update", id, "False")
               /\ UNCHANGED <<documents, chroma>>
          ELSE IF delete_raises
          THEN /\ last_op' = Call("update", id, "raised")
               /\ UNCHANGED <<documents, chroma>>
          ELSE LET old      == documents[id]
                   document == [old EXCEPT
                                  !.title = IF title # None THEN title ELSE @,
                                  !.content = IF content # NoContent THEN content ELSE @,
                                  !.metadata = IF metadata # NoMetadata THEN Merge(@, metadata) ELSE @]
               IN  /\ documents' = [documents EXCEPT ![id] = document]
                   /\ IF add_raises
                      THEN /\ chroma' = AfterDelete(chroma, id)
                           /\ last_op' = Call("update", id, "raised")
                      ELSE /\ chroma' = AfterDelete(chroma, id) \cup Entries(document, ops + 1)
                           /\ last_op' = Call("update", id, "True")
    /\ ops' = ops + 1
    /\ UNCHANGED <<kbOthers, chunk_size, chunk_overlap, issued>>

\* knowledge_base.py lines 100-117: delete_document; the index may raise
DeleteDocument ==
    /\ ops < MaxOps
    /\ \E id \in DocIds, delete_raises \in BOOLEAN :
          IF id \notin DOMAIN documents
          THEN /\ last_op' = Call("delete", id, "False")
               /\ UNCHANGED <<documents, chroma>>
          ELSE IF delete_raises
          THEN /\ last_op' = Call("delete", id, "raised")
               /\ UNCHANGED <<documents, chroma>>
          ELSE /\ chroma' = AfterDelete(chroma, id)
               /\ documents' = [d \in DOMAIN documents \ {id} |-> documents[d]]
               /\ last_op' = Call("delete", id, "True")
    /\ ops' = ops + 1
    /\ UNCHANGED <<kbOthers, chunk_size, chunk_overlap, issued>>

\* vector_store.py lines 77-93: a search reads the collection as it is
SearchSimilar ==
    /\ ops < MaxOps
    /\ \E results \in SUBSET chroma :
          /\ Cardinality(results) <= MaxHits
          /\ last_op' = Call("search", "", {e.id : e \in results})
    /\ ops' = ops + 1
    /\ UNCHANGED <<kbOthers, chunk_size, chunk_overlap, documents, chroma, issued>>

NextKb ==
    \/ AddDocument
    \/ UpdateDocument
    \/ DeleteDocument
    \/ SearchSimilar

SpecKb == InitKb /\ [][NextKb]_vars

----------------------------------------------------------------------------
(* Reading the collection *)

\* the entries of the collection that were made for document id
Owned(id) == {e \in chroma : e.owner = id}

\* text and ordinal index of the entries made for document id
OwnedOutlines(id) == {<<e.page_content, e.id[2]>> : e \in Owned(id)}

\* text and ordinal index of the chunks of the body document id has now
CurrentOutlines(id) ==
    LET made == CreateChunks(documents[id], 0)
    IN  {<<made[k].content, made[k].chunk_index>> : k \in 1..Len(made)}

\* the last call was op and returned True
ReturnedTrue(op) == last_op.op = op /\ last_op.returned = "True"

----------------------------------------------------------------------------
(* C18, as stated: after update_document(id, ...) returns True, the        *)
(* entries the collection holds for id are exactly the chunks of the       *)
(* document's current body, all of them made by this update: none made     *)
(* from the previous body remains.                                         *)
C18_UpdateReplacesChunks ==
    ReturnedTrue("update") =>
        /\ \A e \in Owned(last_op.id) : e.id[1] = ops
        /\ OwnedOutlines(last_op.id) = CurrentOutlines(last_op.id)

----------------------------------------------------------------------------
(* C19, as stated: after delete_document(id) returns True, the document is *)
(* no longer in the knowledge base and the collection holds no entry that  *)
(* was made for it, whatever its content and metadata.                     *)
C19_DeleteRemovesChunks ==
    ReturnedTrue("delete") =>
        /\ last_op.id \notin DOMAIN documents
        /\ Owned(last_op.id) = {}

----------------------------------------------------------------------------
(* C20, as stated: under any order of writes and searches the collection   *)
(* never holds entries of two bodies of one document, nor entries of a     *)
(* document that is not in the knowledge base.  A search reads the         *)
(* collection between two calls, so this is also what a search can see.    *)
C20_NoStaleChunks ==
    /\ \A e \in chroma : e.owner \in DOMAIN documents
    /\ \A e1, e2 \in chroma : e1.owner = e2.owner => e1.id[1] = e2.id[1]

----------------------------------------------------------------------------
(* C33, as stated: after any sequence of add_document, update_document and *)
(* delete_document calls, with any user metadata and with index calls that *)
(* may fail, every entry the collection holds was made for a document that *)
(* is present in the knowledge base's document map: no orphan chunks.      *)
C33_NoOrphanChunks ==
    {e.owner : e \in chroma} \subseteq DOMAIN documents

----------------------------------------------------------------------------
(* C34, as stated: add_document and update_document are all-or-nothing     *)
(* with respect to index failures: a call that raises leaves the document  *)
(* map, membership and fields, and the collection as they were before the  *)
(* call.                                                                   *)
C34_WritesAreAllOrNothing ==
    [][(last_op'.op \in {"add", "update"} /\ last_op'.returned = "raised")
          => (documents' = documents /\ chroma' = chroma)]_vars

----------------------------------------------------------------------------
(* C29: every model invocation of one query, the final one included,       *)
(* receives the same system content: the system instructions followed by   *)
(* the prior conversation when a non-empty history was supplied, the       *)
(* system instructions alone otherwise; the first transcript entry of      *)
(* every invocation is the user's question.                                *)
C29_SystemContentFixed ==
    \A k \in 1..Len(api_calls) :
        /\ api_calls[k].system =
               (IF conversation_history \in {None, ""}
                THEN SYSTEM_PROMPT
                ELSE SYSTEM_PROMPT \o "\n\nPrevious conversation:\n" \o conversation_history)
        /\ api_calls[k].messages # <<>>
        /\ api_calls[k].messages[1] = [role |-> "user", content |-> Query]

\* with a history supplied, two rounds were run and the final invocation,
\* which offers no tools, has been made
C29_Witness ==
    /\ conversation_history = "User: Hello"
    /\ tools # <<>>
    /\ pc = "await_final"
    /\ Len(api_calls) = 3
    /\ "tools" \notin DOMAIN api_calls[3]

----------------------------------------------------------------------------
(* C30: the transcript is append-only and has a fixed shape: the           *)
(* transcript sent at invocation k has 1 + 2(k-1) entries, the user's      *)
(* question and then per completed round the assistant's tool request      *)
(* followed by one user entry with that round's results; the transcript    *)
(* sent at invocation k+1 is the one sent at invocation k with exactly     *)
(* those two entries added; between invocations the transcript has         *)
(* 1 + 2r entries after r completed rounds.  Every transcript sent is a    *)
(* prefix of the last one, so the entries are read in the last one.        *)
C30_TranscriptShape ==
    /\ \A k \in 1..Len(api_calls) : Len(api_calls[k].messages) = 1 + 2 * (k - 1)
    /\ \A k \in 1..(Len(api_calls) - 1) :
          SubSeq(api_calls[k + 1].messages, 1, Len(api_calls[k].messages))
              = api_calls[k].messages
    /\ api_calls # <<>> =>
          LET sent == api_calls[Len(api_calls)].messages
          IN  /\ \A j \in 2..Len(sent) :
                     sent[j].role = (IF j % 2 = 0 THEN "assistant" ELSE "user")
              /\ \A r \in 1..(Len(api_calls) - 1) :
                     LET requested == ToolUses(sent[2 * r].content)
                         results   == sent[2 * r + 1].content
                     IN  /\ requested # <<>>
                         /\ Len(results) = Len(requested)
                         /\ \A i \in 1..Len(results) : results[i].type = "tool_result"
              /\ pc # "entry" => SubSeq(messages, 1, Len(sent)) = sent
    /\ pc = "loop" => Len(messages) = 1 + 2 * tool_rounds_used

\* the third invocation was sent a transcript of five entries
C30_Witness ==
    /\ Len(api_calls) = 3
    /\ Len(api_calls[3].messages) = 5
    /\ Len(api_calls[3].messages[3].content) = 2

----------------------------------------------------------------------------
(* Reading the windows *)

\* the positions after s, up to the raw cut, at which the body has a space,
\* a newline or a sentence end
BreakPositions(s) ==
    {e \in (s + 1)..(s + chunk_size) : doc_content[e + 1] \in {" ", "\n", ".", "!", "?"}}

\* the largest member of a non-empty set of positions
Largest(positions) == CHOOSE e \in positions : \A f \in positions : f <= e

----------------------------------------------------------------------------
(* C26: for a window starting at s with s + chunk_size < len(text) the cut *)
(* is the largest e with s < e <= s + chunk_size at which the text has a   *)
(* space, newline, '.', '!' or '?', and s + chunk_size when there is no    *)
(* such e; with s + chunk_size >= len(text) the cut is s + chunk_size.  In *)
(* all cases the cut is greater than s.                                    *)
C26_WindowCutRule ==
    \A i \in 1..Len(windows) :
        LET s   == windows[i].start
            raw == s + chunk_size
        IN  /\ windows[i].end > s
            /\ windows[i].end =
                   (IF raw < Len(doc_content) /\ BreakPositions(s) # {}
                    THEN Largest(BreakPositions(s))
                    ELSE raw)

\* one call cut a window at a break found by scanning back, cut another at
\* the raw position because the scan reached the window start, and took the
\* last window without a scan
C26_Witness ==
    /\ ChunksReturned
    /\ \E i \in 1..Len(windows) :
          /\ windows[i].start + chunk_size < Len(doc_content)
          /\ windows[i].end < windows[i].start + chunk_size
    /\ \E i \in 1..Len(windows) :
          /\ windows[i].start + chunk_size < Len(doc_content)
          /\ BreakPositions(windows[i].start) = {}
          /\ windows[i].end = windows[i].start + chunk_size
    /\ \E i \in 1..Len(windows) : windows[i].start + chunk_size > Len(doc_content)

----------------------------------------------------------------------------
(* C27, as stated: every chunk's recorded span lies inside the body,       *)
(* 0 <= start_pos < end_pos <= len(body); its text is                      *)
(* body[start_pos:end_pos] with the surrounding whitespace removed; its    *)
(* chunk_length is the length of its text.                                 *)
C27_SpanInsideBody ==
    \A k \in 1..Len(chunks) :
        LET m == chunks[k].metadata
        IN  /\ 0 <= m.start_pos
            /\ m.start_pos < m.end_pos
            /\ m.end_pos <= Len(doc_content)
            /\ chunks[k].content = Strip(SubSeq(doc_content, m.start_pos + 1, m.end_pos))
            /\ m.chunk_length = Len(chunks[k].content)

----------------------------------------------------------------------------
(* Reading the observations of the tools *)

\* the texts with which a tool describes an error
ErrorDescriptions ==
    { <<"Error searching knowledge base: failure">>,
      <<"Error getting knowledge base statistics: failure">>,
      <<"Error listing documents: failure">> }

\* every run of query q is a search that met no failure and had no hit
OnlyEmptySearches(q) ==
    /\ tool_runs[q] # <<>>
    /\ \A k \in 1..Len(tool_runs[q]) :
          /\ tool_runs[q][k].tool = "knowledge_search"
          /\ ~tool_runs[q][k].failed
          /\ tool_runs[q][k].hits = <<>>

----------------------------------------------------------------------------
(* C21: a search without hits, any search of an empty index included, is   *)
(* not an error: the observation of knowledge_search is the non-empty text *)
(* "No relevant documents found in the knowledge base.", never an empty    *)
(* text and never an error description, the query is not failed by it, and *)
(* a query whose searches all had no hits returns an empty source list.    *)
C21_ZeroHitsIsNotAnError ==
    \A q \in DOMAIN agent_pc :
        /\ Len(intermediate_steps[q]) = Len(tool_runs[q])
        /\ \A k \in 1..Len(tool_runs[q]) :
               LET run == tool_runs[q][k]
                   obs == intermediate_steps[q][k].observation
               IN  (run.tool = "knowledge_search" /\ ~run.failed /\ run.hits = <<>>) =>
                       /\ obs # <<>>
                       /\ \A i \in 1..Len(obs) : obs[i] # ""
                       /\ obs = <<"No relevant documents found in the knowledge base.">>
                       /\ obs \notin ErrorDescriptions
                       /\ agent_pc[q] # "failed"
        /\ (Returned(q) /\ OnlyEmptySearches(q)) => query_sources[q] = <<>>

\* a query searched an empty index twice and returned without sources
C21_Witness ==
    /\ collection = <<>>
    /\ Returned("q1")
    /\ Len(tool_runs["q1"]) = 2
    /\ OnlyEmptySearches("q1")
    /\ query_sources["q1"] = <<>>

----------------------------------------------------------------------------
(* C28, as stated: every run of knowledge_search, document_stats and       *)
(* list_documents gives the agent loop a text, and a run during which the  *)
(* knowledge base or the index failed gives it an error description.       *)
C28_FailureBecomesErrorText ==
    \A q \in DOMAIN agent_pc :
        \A k \in 1..Len(tool_runs[q]) :
            LET obs == intermediate_steps[q][k].observation
            IN  /\ obs # <<>>
                /\ tool_runs[q][k].failed => obs \in ErrorDescriptions

----------------------------------------------------------------------------
(* The session store and the query interfaces of langchain-agentic-rag:    *)
(* SessionManager, the endpoint /api/query and AgenticRAGAgent.simple_query.*)
(*                                                                         *)
(* A message's content is the number of the message it was written as, and *)
(* an answer bears the number of the query it answers.  The clock counts   *)
(* hours.  The agent or the model behind a query is an await that either   *)
(* returns an answer or raises.                                            *)

\* bound: the largest max_session_age_hours a manager is constructed with
MaxAge == 1

\* bound: the hour at which the clock stops
MaxClock == 2

\* bound: the largest settings.max_conversation_history
MaxHistory == 2

\* bound: the largest limit a caller gives to get_messages
MaxLimit == 2

\* bound: the number of messages that callers write in one behaviour
MaxSerial == 3

\* app.py line 141: the limit with which the endpoint reads the history
QueryHistoryLimit == 10

SessionIds == {"s1", "s2"}

Requests == {"r1", "r2"}

Roles == {"user", "assistant", "system"}

ChatMessage(role, content) == [role |-> role, content |-> content]

ChatSession(created_at) == [created_at |-> created_at, messages |-> <<>>]

NoRequest == [interface |-> "none", session |-> None, query |-> 0,
              chat_history |-> <<>>, context |-> <<>>]

NoReply == [kind |-> "none", text |-> "", raised |-> FALSE]

NoRead == [session |-> None, limit |-> 0, stored |-> <<>>, returned |-> <<>>]

\* a call of the session manager: the method, the session it names, whether
\* the manager held that session when the call was made, whether the call
\* found or removed something, and the number it returned or the length of
\* what it returned
ManagerCall(op, s, existed, found, count) ==
    [op |-> op, session |-> s, existed |-> existed, found |-> found, count |-> count]

NoCall == ManagerCall("none", None, FALSE, FALSE, 0)

Answer == "answer"

HttpError == "500: failure"

Apology == "I apologize, but I encountered an error while processing your question: failure"

\* Python's seq[-n:] for n >= 0
TailSlice(seq, n) ==
    IF n = 0 THEN seq ELSE SubSeq(seq, Max2(1, Len(seq) - n + 1), Len(seq))

\* Python's seq[:-1]
DropLast(seq) == SubSeq(seq, 1, Len(seq) - 1)

\* session_manager.py lines 40-41: the session is older than the maximum
Expired(ss, s, t) == t - ss[s].created_at > max_session_age_hours

\* get_session without the check of the age
AfterGetSession_KeepsExpired(ss, s, t) == ss

\* session_manager.py lines 34-46: the sessions once get_session has looked at s
AfterGetSession(ss, s, t) ==
    IF s \in DOMAIN ss /\ Expired(ss, s, t)
    THEN [x \in DOMAIN ss \ {s} |-> ss[x]]
    ELSE ss

\* session_manager.py lines 23-32: the sessions once create_session has made s
AfterCreateSession(ss, s, t) == (s :> ChatSession(t)) @@ ss

\* add_message appending to every session the manager holds
AfterAddMessage_AppendsEverywhere(ss, s, message, t) ==
    LET got  == AfterGetSession(ss, s, t)
        made == IF s \in DOMAIN got THEN got ELSE AfterCreateSession(got, s, t)
    IN  [x \in DOMAIN made |-> [made[x] EXCEPT !.messages = Append(@, message)]]

\* session_manager.py lines 48-72: the sessions once add_message has returned
AfterAddMessage(ss, s, message, t) ==
    LET got  == AfterGetSession(ss, s, t)
        made == IF s \in DOMAIN got THEN got ELSE AfterCreateSession(got, s, t)
    IN  [made EXCEPT ![s].messages = Append(@, message)]

\* session_manager.py lines 81-88: what get_messages returns once get_session
\* has looked at s
Messages(ss, s, limit) ==
    IF s \notin DOMAIN ss THEN <<>>
    ELSE IF limit # 0 THEN TailSlice(ss[s].messages, limit)
    ELSE ss[s].messages

\* session_manager.py lines 90-105: get_langchain_messages
LangchainMessages(ss, s, limit) ==
    SelectSeq(Messages(ss, s, limit), LAMBDA m : m.role \in {"user", "assistant"})

\* agent.py lines 107-116: the lines of the history text, one per message
FormatChatHistory(chat_history) ==
    LET kept == TailSlice(chat_history, max_conversation_history)
    IN  [i \in 1..Len(kept) |->
            <<IF kept[i].role = "user" THEN "User:" ELSE "Assistant:",
              ToString(kept[i].content)>>]

\* agent.py lines 81-85: the context put in front of the question
Context(chat_history) ==
    IF chat_history # <<>> THEN FormatChatHistory(chat_history) ELSE <<>>

\* session_manager.py lines 18-21: a session manager is constructed and the
\* settings are read
NewSessionManager ==
    /\ sessions = <<>>
    /\ max_session_age_hours \in 1..MaxAge
    /\ max_conversation_history \in 0..MaxHistory
    /\ now = 0
    /\ serial = 0
    /\ last_read = NoRead
    /\ last_call = NoCall

\* the session manager alone
NewManager ==
    /\ LoopIdle
    /\ AgentIdle
    /\ ChunkIdle
    /\ KbIdle
    /\ ResolveIdle
    /\ NewSessionManager

\* the session manager with its direct callers only
InitSessions ==
    /\ NewManager
    /\ req_pc = <<>>
    /\ requests = <<>>
    /\ replies = <<>>

\* the session manager with its direct callers only, under the largest
\* history setting, which no method of the manager reads
InitStore ==
    /\ InitSessions
    /\ max_conversation_history = MaxHistory

\* the session manager behind the query interfaces
InitEndpoint ==
    /\ NewManager
    /\ req_pc = [r \in Requests |-> "idle"]
    /\ requests = [r \in Requests |-> NoRequest]
    /\ replies = [r \in Requests |-> NoReply]

\* an hour passes
Tick ==
    /\ now < MaxClock
    /\ now' = now + 1
    /\ last_read' = NoRead
    /\ last_call' = NoCall
    /\ UNCHANGED <<sessionOthers, sessions, max_session_age_hours,
                   max_conversation_history, serial, req_pc, requests, replies>>

\* session_manager.py lines 48-72: a caller adds a message to session s
AddMessage(s, role) ==
    /\ serial < MaxSerial
    /\ serial' = serial + 1
    /\ sessions' = AfterAddMessage(sessions, s, ChatMessage(role, serial + 1), now)
    /\ last_read' = NoRead
    /\ last_call' = ManagerCall("add_message", s, s \in DOMAIN sessions, TRUE, 0)
    /\ UNCHANGED <<sessionOthers, max_session_age_hours, max_conversation_history,
                   now, req_pc, requests, replies>>

\* session_manager.py lines 74-88: a caller reads session s with a limit
GetMessages(s, limit) ==
    LET got == AfterGetSession(sessions, s, now)
    IN  /\ sessions' = got
        /\ last_read' = [session  |-> s,
                         limit    |-> limit,
                         stored   |-> IF s \in DOMAIN got THEN got[s].messages ELSE <<>>,
                         returned |-> Messages(got, s, limit)]
        /\ last_call' = ManagerCall("get_messages", s, s \in DOMAIN sessions,
                                    s \in DOMAIN got, Len(Messages(got, s, limit)))
        /\ UNCHANGED <<sessionOthers, max_session_age_hours, max_conversation_history,
                       now, serial, req_pc, requests, replies>>

\* session_manager.py lines 23-32: a caller creates a session under the id s
CreateSession(s) ==
    /\ sessions' = AfterCreateSession(sessions, s, now)
    /\ last_read' = NoRead
    /\ last_call' = ManagerCall("create_session", s, s \in DOMAIN sessions, TRUE, 0)
    /\ UNCHANGED <<sessionOthers, max_session_age_hours, max_conversation_history,
                   now, serial, req_pc, requests, replies>>

\* session_manager.py lines 119-131: a caller asks for the information of
\* session s; count is the message_count of the answer
GetSessionInfo(s) ==
    LET got == AfterGetSession(sessions, s, now)
    IN  /\ sessions' = got
        /\ last_read' = NoRead
        /\ last_call' = ManagerCall("get_session_info", s, s \in DOMAIN sessions,
                                    s \in DOMAIN got,
                                    IF s \in DOMAIN got THEN Len(got[s].messages) ELSE 0)
        /\ UNCHANGED <<sessionOthers, max_session_age_hours, max_conversation_history,
                       now, serial, req_pc, requests, replies>>

\* delete_session reporting True whether or not it holds the session
DeleteSession_AlwaysTrue(s) ==
    /\ sessions' = [t \in DOMAIN sessions \ {s} |-> sessions[t]]
    /\ last_call' = ManagerCall("delete_session", s, s \in DOMAIN sessions, TRUE, 0)
    /\ last_read' = NoRead
    /\ UNCHANGED <<sessionOthers, max_session_age_hours, max_conversation_history,
                   now, serial, req_pc, requests, replies>>

\* session_manager.py lines 107-113: a caller deletes session s
DeleteSession(s) ==
    /\ IF s \in DOMAIN sessions
       THEN /\ sessions' = [t \in DOMAIN sessions \ {s} |-> sessions[t]]
            /\ last_call' = ManagerCall("delete_session", s, s \in DOMAIN sessions, TRUE, 0)
       ELSE /\ sessions' = sessions
            /\ last_call' = ManagerCall("delete_session", s, s \in DOMAIN sessions, FALSE, 0)
    /\ last_read' = NoRead
    /\ UNCHANGED <<sessionOthers, max_session_age_hours, max_conversation_history,
                   now, serial, req_pc, requests, replies>>

\* session_manager.py line 136: the cutoff of a cleanup made at hour t
CutoffTime(t) == t - max_session_age_hours

\* session_manager.py lines 133-148: a caller cleans up; count is the number
\* returned
CleanupExpiredSessions ==
    LET expired_sessions ==
            {s \in DOMAIN sessions : sessions[s].created_at < CutoffTime(now)}
    IN  /\ sessions' = [t \in DOMAIN sessions \ expired_sessions |-> sessions[t]]
        /\ last_read' = NoRead
        /\ last_call' = ManagerCall("cleanup_expired_sessions", None,
                                    sessions # <<>>, expired_sessions # {},
                                    Cardinality(expired_sessions))
        /\ UNCHANGED <<sessionOthers, max_session_age_hours, max_conversation_history,
                       now, serial, req_pc, requests, replies>>

\* app.py lines 133-151: the endpoint takes a query for session s, or for a
\* new session when the request names none, stores it, reads the history and
\* awaits the agent or the model
QueryBegin(r, s, named, use_agent) ==
    /\ req_pc[r] = "idle"
    /\ serial < MaxSerial
    /\ named \/ s \notin DOMAIN sessions
    /\ LET made   == IF named THEN sessions ELSE AfterCreateSession(sessions, s, now)
           stored == AfterAddMessage(made, s, ChatMessage("user", serial + 1), now)
           read   == AfterGetSession(stored, s, now)
           chat_history == LangchainMessages(read, s, QueryHistoryLimit)
       IN  /\ sessions' = read
           /\ requests' = [requests EXCEPT ![r] =
                  [interface    |-> IF use_agent THEN "agent" ELSE "llm",
                   session      |-> s,
                   query        |-> serial + 1,
                   chat_history |-> IF use_agent THEN DropLast(chat_history) ELSE <<>>,
                   context      |-> IF use_agent THEN Context(DropLast(chat_history))
                                    ELSE <<>>]]
    /\ serial' = serial + 1
    /\ req_pc' = [req_pc EXCEPT ![r] = "awaiting"]
    /\ replies' = [replies EXCEPT ![r] = NoReply]
    /\ last_read' = NoRead
    /\ last_call' = NoCall
    /\ UNCHANGED <<sessionOthers, max_session_age_hours, max_conversation_history,
                   now>>

\* app.py lines 146-170: the agent or the model returns; the answer is stored
\* and sent
QueryReturns(r) ==
    /\ req_pc[r] = "awaiting"
    /\ requests[r].interface \in {"agent", "llm"}
    /\ sessions' = AfterAddMessage(sessions, requests[r].session,
                                   ChatMessage("assistant", requests[r].query), now)
    /\ replies' = [replies EXCEPT ![r] =
           [kind |-> "response", text |-> Answer, raised |-> FALSE]]
    /\ req_pc' = [req_pc EXCEPT ![r] = "done"]
    /\ last_read' = NoRead
    /\ last_call' = NoCall
    /\ UNCHANGED <<sessionOthers, max_session_age_hours, max_conversation_history,
                   now, serial, requests>>

\* app.py lines 172-174: the agent or the model raises; the endpoint answers
\* with status 500
QueryRaises(r) ==
    /\ req_pc[r] = "awaiting"
    /\ requests[r].interface \in {"agent", "llm"}
    /\ replies' = [replies EXCEPT ![r] =
           [kind |-> "error", text |-> HttpError, raised |-> TRUE]]
    /\ req_pc' = [req_pc EXCEPT ![r] = "done"]
    /\ last_read' = NoRead
    /\ last_call' = NoCall
    /\ UNCHANGED <<sessionOthers, sessions, max_session_age_hours,
                   max_conversation_history, now, serial, requests>>

\* agent.py lines 174-177: simple_query awaits query without a history
SimpleQueryBegin(r) ==
    /\ req_pc[r] = "idle"
    /\ requests' = [requests EXCEPT ![r] =
           [NoRequest EXCEPT !.interface = "simple_query"]]
    /\ req_pc' = [req_pc EXCEPT ![r] = "awaiting"]
    /\ replies' = [replies EXCEPT ![r] = NoReply]
    /\ last_read' = NoRead
    /\ last_call' = NoCall
    /\ UNCHANGED <<sessionOthers, sessions, max_session_age_hours,
                   max_conversation_history, now, serial>>

\* agent.py lines 177-178: query returns and simple_query returns its answer
SimpleQueryReturns(r) ==
    /\ req_pc[r] = "awaiting"
    /\ requests[r].interface = "simple_query"
    /\ replies' = [replies EXCEPT ![r] =
           [kind |-> "response", text |-> Answer, raised |-> FALSE]]
    /\ req_pc' = [req_pc EXCEPT ![r] = "done"]
    /\ last_read' = NoRead
    /\ last_call' = NoCall
    /\ UNCHANGED <<sessionOthers, sessions, max_session_age_hours,
                   max_conversation_history, now, serial, requests>>

\* agent.py lines 179-181: query raises and simple_query returns a text that
\* describes the error
SimpleQueryRaises(r) ==
    /\ req_pc[r] = "awaiting"
    /\ requests[r].interface = "simple_query"
    /\ replies' = [replies EXCEPT ![r] =
           [kind |-> "response", text |-> Apology, raised |-> TRUE]]
    /\ req_pc' = [req_pc EXCEPT ![r] = "done"]
    /\ last_read' = NoRead
    /\ last_call' = NoCall
    /\ UNCHANGED <<sessionOthers, sessions, max_session_age_hours,
                   max_conversation_history, now, serial, requests>>

\* the calls of the session manager
NextSessions ==
    \/ Tick
    \/ \E s \in SessionIds, role \in Roles : AddMessage(s, role)
    \/ \E s \in SessionIds, limit \in 0..MaxLimit : GetMessages(s, limit)

SpecSessions == InitSessions /\ [][NextSessions]_vars

\* the session manager with every method its callers use
NextStore ==
    \/ Tick
    \/ \E s \in SessionIds, role \in {"user", "assistant"} : AddMessage(s, role)
    \/ \E s \in SessionIds, limit \in {0, MaxLimit} : GetMessages(s, limit)
    \/ \E s \in SessionIds : CreateSession(s)
    \/ \E s \in SessionIds : GetSessionInfo(s)
    \/ \E s \in SessionIds : DeleteSession(s)
    \/ CleanupExpiredSessions

SpecStore == InitStore /\ [][NextStore]_vars

\* knowledge_base.py line 218, session_manager.py line 163: the application
\* holds one knowledge base and one session manager; the larger chunk size
\* and the largest age and history settings are taken
InitApp ==
    /\ LoopIdle
    /\ AgentIdle
    /\ ResolveIdle
    /\ NewKnowledgeBase
    /\ chunk_size = MaxChunkSize
    /\ NewSessionManager
    /\ max_session_age_hours = MaxAge
    /\ max_conversation_history = MaxHistory
    /\ req_pc = <<>>
    /\ requests = <<>>
    /\ replies = <<>>

\* the writes to the knowledge base and to the sessions, MaxOps of them at
\* most, and the deletions of sessions
NextApp ==
    \/ ops + serial < MaxOps /\ AddDocument
    \/ ops + serial < MaxOps /\ UpdateDocument
    \/ ops + serial < MaxOps /\ DeleteDocument
    \/ \E s \in SessionIds : ops + serial < MaxOps /\ AddMessage(s, "user")
    \/ \E s \in SessionIds : DeleteSession(s)

SpecApp == InitApp /\ [][NextApp]_vars

\* the queries, each made once, with reads of the sessions between their steps
NextEndpoint ==
    \/ Tick
    \/ \E s \in SessionIds, limit \in 0..MaxLimit : GetMessages(s, limit)
    \/ \E r \in Requests, s \in SessionIds, named, use_agent \in BOOLEAN :
          QueryBegin(r, s, named, use_agent)
    \/ \E r \in Requests : QueryReturns(r)
    \/ \E r \in Requests : QueryRaises(r)
    \/ \E r \in Requests : SimpleQueryBegin(r)
    \/ \E r \in Requests : SimpleQueryReturns(r)
    \/ \E r \in Requests : SimpleQueryRaises(r)

SpecEndpoint == InitEndpoint /\ [][NextEndpoint]_vars

----------------------------------------------------------------------------
(* C22, as stated: a query whose agent or model invocation raised gives    *)
(* its caller an error and never a response text, whether empty or         *)
(* substituted.                                                            *)
C22_FailureIsReportedAsError ==
    \A r \in DOMAIN replies :
        replies[r].raised => replies[r].kind = "error"

----------------------------------------------------------------------------
(* C23, as stated: the number of messages stored for a session never       *)
(* exceeds the configured maximum of the conversation history.             *)
C23_StoredHistoryIsCapped ==
    \A s \in DOMAIN sessions :
        Len(sessions[s].messages) <= max_conversation_history

----------------------------------------------------------------------------
(* C24, as stated: for every limit >= 0 get_messages returns at most limit *)
(* messages, namely the most recent ones in their original order, and the  *)
(* history text handed to the agent is built from at most                  *)
(* max_conversation_history messages.                                      *)
C24_HistoryBoundedAtReadTime ==
    /\ last_read \notin {<<>>, NoRead} =>
          LET stored == last_read.stored
              n      == Min2(last_read.limit, Len(stored))
          IN  /\ Len(last_read.returned) <= last_read.limit
              /\ last_read.returned = SubSeq(stored, Len(stored) - n + 1, Len(stored))
    /\ \A r \in DOMAIN requests :
          Len(requests[r].context) <= max_conversation_history

----------------------------------------------------------------------------
(* The resolution of a collection name in the retriever of                 *)
(* starting-ragchatbot-codebase.  The vector store of that system is not   *)
(* among the sources; the resolution is modelled from the specification's  *)
(* section on name resolution.                                             *)
(*                                                                         *)
(* A name is a sequence of letters, each in upper or in lower case.        *)

\* bound: the longest name a caller asks for
MaxNameLen == 2

Letters == {"P", "p", "B", "b"}

\* the lower-case form of a letter
LowerLetter(c) == IF c = "P" THEN "p" ELSE IF c = "B" THEN "b" ELSE c

\* the lower-case form of a name
Lower(n) == [i \in 1..Len(n) |-> LowerLetter(n[i])]

\* part occurs in whole as a contiguous run of letters
IsSubstring(part, whole) ==
    \E offset \in 0..(Len(whole) - Len(part)) :
        \A i \in 1..Len(part) : whole[offset + i] = part[i]

\* the titles a catalog is made of
KnownTitles == { <<"P", "b">>, <<"B", "P">>, <<"P", "B", "b">> }

\* the names a caller may ask for
CourseNames == UNION {[1..n -> Letters] : n \in 1..MaxNameLen}

ResolutionError == <<"ResolutionError">>

NoCourseFound == "No course found matching the name"

\* the titles that contain the name when case is ignored
SubstringMatches(n, catalog) ==
    {title \in catalog : IsSubstring(Lower(n), Lower(title))}

\* a resolution that looks for containment before it looks for equality
Resolutions_ContainmentFirst(n, catalog) ==
    IF SubstringMatches(n, catalog) # {} THEN SubstringMatches(n, catalog)
    ELSE {ResolutionError}

\* what the resolution of a name may give: the title equal to it; failing
\* that a title that contains it when case is ignored, the one most similar
\* to the name when several do; failing that an error
Resolutions(n, catalog) ==
    IF n \in catalog THEN {n}
    ELSE IF SubstringMatches(n, catalog) # {} THEN SubstringMatches(n, catalog)
    ELSE {ResolutionError}

\* the result of a search: documents found, or an error
SearchResult(docs, error) == [documents |-> docs, error |-> error]

\* a catalog exists and a caller has a name
InitResolve ==
    /\ LoopIdle
    /\ AgentIdle
    /\ ChunkIdle
    /\ KbIdle
    /\ SessionIdle
    /\ course_catalog \in SUBSET KnownTitles
    /\ course_name \in CourseNames
    /\ resolve_pc = "idle"
    /\ resolved = <<>>
    /\ search_outcome = <<>>

\* the name is resolved against the catalog
ResolveCourseName ==
    /\ resolve_pc = "idle"
    /\ resolved' \in Resolutions(course_name, course_catalog)
    /\ resolve_pc' = "resolved"
    /\ UNCHANGED <<resolveOthers, course_catalog, course_name, search_outcome>>

\* the search is given a name that resolved to no collection
SearchFailsToResolve ==
    /\ resolve_pc = "resolved"
    /\ resolved = ResolutionError
    /\ search_outcome' = SearchResult(<<>>, NoCourseFound)
    /\ resolve_pc' = "searched"
    /\ UNCHANGED <<resolveOthers, course_catalog, course_name, resolved>>

\* the search is run in the collection the name resolved to
SearchInCollection ==
    /\ resolve_pc = "resolved"
    /\ resolved # ResolutionError
    /\ \E docs \in {<<>>, <<"chunk">>, <<"chunk", "chunk">>} :
          search_outcome' = SearchResult(docs, None)
    /\ resolve_pc' = "searched"
    /\ UNCHANGED <<resolveOthers, course_catalog, course_name, resolved>>

NextResolve ==
    \/ ResolveCourseName
    \/ SearchFailsToResolve
    \/ SearchInCollection

SpecResolve == InitResolve /\ [][NextResolve]_vars

----------------------------------------------------------------------------
(* C25: a name equal to a known collection resolves to that collection; a  *)
(* case-varied or partial name resolves to a known collection that         *)
(* contains it; a name that matches no known collection gives a resolution *)
(* error, and the search then returns an error that differs from the empty *)
(* result of a search in a known collection.                               *)
C25_ResolutionPrecedence ==
    LET containing == {title \in course_catalog :
                          \E offset \in 0..(Len(title) - Len(course_name)) :
                              \A i \in 1..Len(course_name) :
                                  LowerLetter(title[offset + i]) = LowerLetter(course_name[i])}
    IN  /\ resolve_pc # "idle" =>
              /\ course_name \in course_catalog => resolved = course_name
              /\ (course_name \notin course_catalog /\ containing # {}) =>
                     resolved \in containing
              /\ containing = {} => resolved = ResolutionError
              /\ resolved \in course_catalog \cup {ResolutionError}
        /\ resolve_pc = "searched" =>
              /\ containing = {} <=> search_outcome.error # None
              /\ containing = {} => search_outcome # SearchResult(<<>>, None)
              /\ search_outcome.error # None => search_outcome.documents = <<>>

\* a catalog with two titles that contain the name resolved it to the title
\* equal to the name, and the search in it found nothing
C25_Witness ==
    /\ course_catalog = { <<"P", "b">>, <<"P", "B", "b">> }
    /\ course_name = <<"P", "b">>
    /\ resolve_pc = "searched"
    /\ resolved = <<"P", "b">>
    /\ search_outcome = SearchResult(<<>>, None)

----------------------------------------------------------------------------
(* C31: within a round that requests several tools a call that raises does *)
(* not keep the later requests of the round from being executed: the       *)
(* completed round holds one result entry per request, in request order,   *)
(* which carries "Tool execution error: <message>" for a call that raised  *)
(* and the observation for a call that returned; while the round is under  *)
(* way the calls made so far are those of its first requests, in order.    *)
C31_FailedCallDoesNotStopRound ==
    /\ \A j \in ResultEntries(messages) :
          LET requested == ToolUses(messages[j - 1].content)
              results   == messages[j].content
              calls     == CallsOfRound((j - 1) \div 2)
          IN  /\ Len(results) = Len(requested)
              /\ Len(calls) = Len(requested)
              /\ \A i \in 1..Len(requested) :
                    /\ calls[i].id = requested[i].id
                    /\ results[i].tool_use_id = requested[i].id
                    /\ results[i].content =
                           (IF calls[i].raised
                            THEN "Tool execution error: " \o calls[i].value
                            ELSE calls[i].value)
    /\ pc = "tools" =>
          LET requested == ToolUses(response.content)
              calls     == CallsOfRound(Len(api_calls))
          IN  /\ Len(calls) = Len(tool_results)
              /\ Len(calls) <= Len(requested)
              /\ \A i \in 1..Len(calls) : calls[i].id = requested[i].id
              /\ (Len(calls) < Len(requested)) => MoreBlocks(block_index, response.content)

\* a completed round of two requests whose first call raised and whose
\* second call returned an observation
C31_Witness ==
    \E j \in ResultEntries(messages) :
        LET calls == CallsOfRound((j - 1) \div 2)
        IN  /\ Len(calls) = 2
            /\ calls[1].raised
            /\ ~calls[2].raised
            /\ messages[j].content[1].content = "Tool execution error: Database unavailable"
            /\ messages[j].content[2].content = "Course content"

----------------------------------------------------------------------------
(* C32: for an overlap >= 0 the windows leave no gap: the first window     *)
(* starts at 0, each later window starts at or before the cut of the       *)
(* window before it, and when the call returns every character position of *)
(* the body lies inside a window; a window longer than the overlap is      *)
(* followed by a window that starts exactly overlap characters before its  *)
(* cut.                                                                    *)
C32_WindowsLeaveNoGap ==
    /\ windows # <<>> => windows[1].start = 0
    /\ \A i \in 1..(Len(windows) - 1) :
          /\ windows[i + 1].start <= windows[i].end
          /\ (windows[i].end - windows[i].start > chunk_overlap) =>
                 windows[i + 1].start = windows[i].end - chunk_overlap
    /\ (windows # <<>> /\ chunk_pc = "loop") => start <= windows[Len(windows)].end
    /\ ChunksReturned =>
          \A p \in 0..(Len(doc_content) - 1) :
              \E i \in 1..Len(windows) : windows[i].start <= p /\ p < windows[i].end

\* a returned call with a positive overlap in which one window was longer
\* than the overlap and another was not
C32_Witness ==
    /\ ChunksReturned
    /\ chunk_overlap >= 1
    /\ \E i \in 1..(Len(windows) - 1) :
          /\ windows[i].end - windows[i].start > chunk_overlap
          /\ windows[i + 1].start = windows[i].end - chunk_overlap
          /\ windows[i + 1].start > windows[i].start + 1
    /\ \E i \in 1..(Len(windows) - 1) :
          /\ windows[i].end - windows[i].start <= chunk_overlap
          /\ windows[i + 1].start = windows[i].start + 1

----------------------------------------------------------------------------
(* C35, as stated: in every session, after any sequence of queries through *)
(* the endpoint, failing and concurrent queries on one session included,   *)
(* the stored messages alternate user, assistant, starting with user; each *)
(* assistant message answers the user message immediately before it; and   *)
(* the history passed to the agent never contains the message of the query *)
(* it is passed for.                                                       *)
C35_MessagesAlternate ==
    /\ \A s \in DOMAIN sessions :
          \A i \in 1..Len(sessions[s].messages) :
              LET m == sessions[s].messages[i]
              IN  IF i % 2 = 1
                  THEN m.role = "user"
                  ELSE /\ m.role = "assistant"
                       /\ m.content = sessions[s].messages[i - 1].content
    /\ \A r \in DOMAIN requests :
          \A i \in 1..Len(requests[r].chat_history) :
              requests[r].chat_history[i] # ChatMessage("user", requests[r].query)

----------------------------------------------------------------------------
(* Reading the calls of the session manager *)

\* the manager holds session s and it is older than the maximum age
Older(s) ==
    /\ s \in DOMAIN sessions
    /\ now - sessions[s].created_at > max_session_age_hours

\* the step was a call of add_message that left in session s the messages
\* earlier followed by the one message given, and left the message list of
\* every other session as it was
AppendsOneAfter(s, earlier) ==
    /\ s \in DOMAIN sessions'
    /\ Len(sessions'[s].messages) = Len(earlier) + 1
    /\ SubSeq(sessions'[s].messages, 1, Len(earlier)) = earlier
    /\ sessions'[s].messages[Len(earlier) + 1].content = serial'
    /\ \A x \in SessionIds \ {s} :
          /\ x \in DOMAIN sessions' <=> x \in DOMAIN sessions
          /\ x \in DOMAIN sessions => sessions'[x].messages = sessions[x].messages

----------------------------------------------------------------------------
(* C36: a session older than max_session_age_hours, measured from its      *)
(* creation, is never returned by get_messages or get_session_info, which  *)
(* both read it through get_session: the first access removes it, and an   *)
(* add_message under the same id starts a new session that holds only the  *)
(* new message; cleanup_expired_sessions removes exactly the sessions      *)
(* created before the cutoff, returns their number and leaves all other    *)
(* sessions unchanged.                                                     *)
C36_ExpiredSessionsAreNeverReturned ==
    [][LET call == last_call'
           s    == call.session
           read == call.op \in {"get_messages", "get_session_info"}
       IN  /\ (read /\ Older(s)) =>
                  /\ ~call.found
                  /\ call.count = 0
                  /\ s \notin DOMAIN sessions'
                  /\ call.op = "get_messages" => last_read'.returned = <<>>
           /\ (read /\ call.found) =>
                  /\ s \in DOMAIN sessions
                  /\ ~Older(s)
                  /\ sessions' = sessions
           /\ (call.op = "add_message" /\ (s \notin DOMAIN sessions \/ Older(s))) =>
                  /\ sessions'[s].created_at = now
                  /\ Len(sessions'[s].messages) = 1
           /\ call.op = "cleanup_expired_sessions" =>
                  LET before == {x \in DOMAIN sessions :
                                    sessions[x].created_at < now - max_session_age_hours}
                  IN  /\ DOMAIN sessions' = DOMAIN sessions \ before
                      /\ call.count = Cardinality(before)
                      /\ \A x \in DOMAIN sessions' : sessions'[x] = sessions[x]
      ]_vars

\* a read has just found the manager holding a session with messages that
\* was too old, has returned nothing and has removed it, while a younger
\* session stays
C36_Witness ==
    /\ last_call.op \in {"get_messages", "get_session_info"}
    /\ last_call.existed
    /\ ~last_call.found
    /\ last_call.session \notin DOMAIN sessions
    /\ serial >= 2
    /\ \E x \in DOMAIN sessions : sessions[x].messages # <<>>

----------------------------------------------------------------------------
(* C37, as stated: add_message(s, role, text) appends exactly one message  *)
(* at the end of session s, creating s when it does not exist, keeps the   *)
(* earlier messages of s unchanged and in order, and leaves the message    *)
(* list of every other session unchanged.                                  *)
C37_AddMessageKeepsEarlierMessages ==
    [][last_call'.op = "add_message" =>
          LET s == last_call'.session
          IN  AppendsOneAfter(s, IF s \in DOMAIN sessions
                                 THEN sessions[s].messages ELSE <<>>)
      ]_vars

(* C37, amended: add_message(s, role, text) on a session that is not older *)
(* than max_session_age_hours appends exactly one message at the end of s  *)
(* and keeps the earlier messages of s unchanged and in order; on a        *)
(* session that is older, or that does not exist, it leaves s holding the  *)
(* new message alone; in every case it leaves the message list of every    *)
(* other session unchanged.                                                *)
C37_AddMessageKeepsLiveMessages ==
    [][last_call'.op = "add_message" =>
          LET s == last_call'.session
          IN  AppendsOneAfter(s, IF s \in DOMAIN sessions /\ ~Older(s)
                                 THEN sessions[s].messages ELSE <<>>)
      ]_vars

\* add_message has just appended a second message to a session while the
\* other session holds a message
C37_Witness ==
    /\ last_call.op = "add_message"
    /\ last_call.existed
    /\ Len(sessions[last_call.session].messages) = 2
    /\ \E x \in DOMAIN sessions \ {last_call.session} : Len(sessions[x].messages) = 1

----------------------------------------------------------------------------
(* C38: operations on an unknown identifier are reported and change        *)
(* nothing: delete_session, KnowledgeBase.delete_document and              *)
(* KnowledgeBase.update_document called with an id that is not present     *)
(* return False, do not raise, and leave the sessions, the document map    *)
(* and the collection unchanged; delete_session returns True exactly when  *)
(* the manager held the session, and afterwards does not hold it.  A step  *)
(* that advances ops is a call of the knowledge base, any other step a     *)
(* call of the session manager.                                            *)
C38_UnknownIdsChangeNothing ==
    [][/\ (/\ ops' # ops
            /\ last_op'.op \in {"update", "delete"}
            /\ last_op'.id \notin DOMAIN documents) =>
              /\ last_op'.returned = "False"
              /\ documents' = documents
              /\ chroma' = chroma
              /\ sessions' = sessions
       /\ (ops' = ops /\ last_call'.op = "delete_session") =>
              LET s == last_call'.session
              IN  /\ last_call'.found <=> s \in DOMAIN sessions
                  /\ s \notin DOMAIN sessions'
                  /\ s \notin DOMAIN sessions =>
                         /\ sessions' = sessions
                         /\ documents' = documents
                         /\ chroma' = chroma
      ]_vars

\* with a document indexed and a session stored, a delete_document of an
\* unknown id has returned False and then a delete_session of an unknown id
\* has returned False
C38_Witness ==
    /\ last_op.op = "delete"
    /\ last_op.returned = "False"
    /\ last_call.op = "delete_session"
    /\ ~last_call.found
    /\ documents # <<>>
    /\ chroma # {}
    /\ sessions # <<>>

============================================================================
